---- MODULE Spec2Model ----
(***************************************************************************)
(* Model of the layer separation (modules/layer_separator.py) and of the   *)
(* animation curve synthesis (modules/parameters_gen.py) of the Live2D     *)
(* generator.                                                              *)
(*                                                                         *)
(*   Spec         LayerSeparator.separate: the loop over the configured    *)
(*                parts, the background layer, _create_psd                 *)
(*   SpecSegment  one call of LayerSeparator._segment_part, pixel by pixel *)
(*   SpecBlink    ParametersGenerator._create_eye_blink_curve              *)
(*   SpecCurves   one call of any of the four _create_* curve functions    *)
(*   SpecGenerate ParametersGenerator.generate, called twice, with the     *)
(*                state of the module random                               *)
(*   SpecParameters  CubismAutomation._setup_parameters and                *)
(*                _create_parameter                                        *)
(*                                                                         *)
(* Times are integers in ticks (TicksPerMs ticks to the millisecond), so   *)
(* that every sum and every random draw of the model is exact.  Blink      *)
(* values are in tenths (10 is 1.0).                                       *)
(***************************************************************************)
EXTENDS Integers, Sequences, FiniteSets, TLC

VARIABLES
    \* ---- LayerSeparator.separate
    pc,             \* position in separate: "segment", "background", "psd", "done", "raised"
    layers_config,  \* self.layers_config: parts, segmentation_model, refine_edges, fill_background, export_psd
    size,           \* <<height, width>> of the image with the background removed
    idx,            \* number of parts the loop over parts has handled
    layers,         \* the dict layers, as the sequence of its items in insertion order
    psd_layers,     \* the layers created in the PSD, in creation order
    psd_saved,      \* psd.save was reached
    candidates,     \* per handled part, how many candidate masks its segmentation had
    \* ---- LayerSeparator._segment_part
    spc,            \* position in _segment_part: "idle", "sam", "fallback", "select", "refine", "returned"
    part_name,      \* the part being segmented
    sam_output,     \* what the SAM predictor answers for this part (a list of masks)
    masks,          \* the local list masks
    selected_mask,  \* sorted_masks[0]
    segmented,      \* the value returned: [some |-> FALSE] is None
    \* ---- ParametersGenerator._create_eye_blink_curve
    bpc,            \* position in the blink loop: "idle", "head", "body", "wait", "returned"
    speed10,        \* the argument speed, in tenths
    random_blink,   \* the argument random_blink
    blink_duration, \* the local blink_duration, in ticks
    interval,       \* the local interval, in ticks
    current_time,   \* the local current_time, in ticks
    step,           \* number of keyframes of the current cycle already appended
    keyframes,      \* the list keyframes
    waits,          \* the wait_time values drawn so far, in order
    \* ---- one call of _create_sample_lip_sync, _create_head_rotation_curve or
    \* ---- _create_breathing_curve
    cpc,            \* "idle", "called", "returned"
    curve_call,     \* the function called and its arguments
    draws,          \* the draws random.uniform(0.3, 0.7) made, as grid indices
    curve,          \* the list of keyframes returned
    \* ---- ParametersGenerator.generate
    gpc,            \* "idle", "eye", "mouth", "head", "body", "physics", "combined", "returned"
    run,            \* which of two successive calls of generate this is
    parameters_config, \* self.parameters_config
    rng,            \* the state of the generator of the module random
    rng0,           \* the state of that generator when this call of generate began
    eye_open_curve, \* the local eye_open_curve of _generate_eye_blink_params
    lip_sync_data,  \* the local lip_sync_data of _generate_mouth_params
    x_curve,        \* the locals x_curve, y_curve, z_curve of
    y_curve,        \*   _generate_head_rotation_params
    z_curve,
    breathing_curve, \* the local breathing_curve of _generate_body_params
    project_path,   \* the argument project_path: "file", "dir" (holds a .cmo3), "empty_dir"
    produced,       \* what generate leaves behind it, files written and attributes
                    \*   set: the set of [id, keyframes] a reader finds there
    first_run,      \* what the first call began with and produced, kept for comparison
    result,         \* what generate returned: "none", "True", "False"
    \* ---- CubismAutomation._setup_parameters / _create_parameter
    rpc,            \* "idle", "setup", "call", "returned"
    reg_call,       \* the arguments of a call of _create_parameter on its own
    reg_idx,        \* number of calls of _create_parameter _setup_parameters has made
    created,        \* the parameters typed into the editor and confirmed, in order
    reg_result,     \* the value returned: "none", "True", "False"
    \* ---- CubismAutomation._create_expressions / _create_expression
    xpc,            \* "idle", "loop", "returned"
    preset_expressions, \* config['parameters']['mouth']['preset_expressions']
    x_idx,          \* number of expressions the loop has handled
    expressions,    \* the expressions made in the editor, in order
    x_result,       \* the values _create_expression returned, in order
    \* ---- CubismAutomation.automate
    apc,            \* "idle", "start", "steps", "save", "close", "returned"
    cubism_config,  \* self.cubism_config
    psd_exists,     \* os.path.exists(psd_path)
    a_idx,          \* number of entries of automated_steps the loop has handled
    cubism_running, \* a Cubism process is running
    started,        \* _start_cubism returned True in this call
    performed,      \* the operations on Cubism made so far, with their results
    a_result,       \* the value returned: "none", "" or "output_subdir"
    \* ---- main
    mpc,            \* "idle", "character", "layer", "cubism", "parameters", "export", "done", "raised"
    args,           \* the command line arguments
    character_path, \* the local character_path; "" is None
    layers_dir,     \* the local layers_dir; "" is None
    cubism_project, \* the local cubism_project; "None", "" or a path
    stages,         \* the stages entered so far, in order
    \* ---- Live2DGUI.run_full_process
    upc,            \* "idle", "separate", "list", "cubism", "parameters", "export", "returned"
    found_dirs,     \* the directories layers_* of self.output_dir of the GUI
    separation,     \* how this run's separate ended, and the directory it made
    gui_layers_dir, \* the local layers_dir
    called,         \* the later stages called so far, with their argument
    gui_result      \* the value returned: "none", "export_path" or "None"

layerVars == <<pc, layers_config, size, idx, layers, psd_layers, psd_saved, candidates>>
segVars == <<spc, part_name, sam_output, masks, selected_mask, segmented>>
blinkVars == <<bpc, speed10, random_blink, blink_duration, interval, current_time,
               step, keyframes, waits>>
createVars == <<cpc, curve_call, draws, curve>>
genVars == <<gpc, run, parameters_config, rng, rng0, eye_open_curve, lip_sync_data,
             x_curve, y_curve, z_curve, breathing_curve, project_path, produced,
             first_run, result>>
regVars == <<rpc, reg_call, reg_idx, created, reg_result>>
exprVars == <<xpc, preset_expressions, x_idx, expressions, x_result>>
autoVars == <<apc, cubism_config, psd_exists, a_idx, cubism_running, started, performed,
              a_result>>
mainVars == <<mpc, args, character_path, layers_dir, cubism_project, stages>>
guiVars == <<upc, found_dirs, separation, gui_layers_dir, called, gui_result>>
pipeVars == <<exprVars, autoVars, mainVars, guiVars>>
coreVars == <<layerVars, segVars, blinkVars, createVars, genVars, regVars>>
vars == <<layerVars, segVars, blinkVars, createVars, genVars, regVars, pipeVars>>

----------------------------------------------------------------------------
(* Bounds of the model *)

\* longest list of parts in layers_config['parts']
MaxParts == 3
\* longest list of masks the SAM predictor answers
MaxMasks == 2
\* random.uniform(2.0, 6.0) is drawn on a grid of IntervalSteps equal steps
IntervalSteps == 2
\* random.uniform(interval * 0.7, interval * 1.3) is drawn on a grid of GapSteps
\* equal steps
GapSteps == 2

\* the unit of time: every draw on the two grids is a whole number of ticks
TicksPerMs == 10 * IntervalSteps * GapSteps
Ms(x) == x * TicksPerMs

Range(s) == {s[i] : i \in 1..Len(s)}

SeqsUpTo(S, n) == UNION {[1..k -> S] : k \in 0..n}

----------------------------------------------------------------------------
(* Part hierarchy, colour hints, and Python's sorted *)

part_hierarchy ==
    [p \in {"background"} |-> 0] @@ [p \in {"hair_back"} |-> 1] @@
    [p \in {"body"} |-> 2] @@
    [p \in {"arm_left", "arm_right", "leg_left", "leg_right"} |-> 3] @@
    [p \in {"face"} |-> 4] @@
    [p \in {"eye_white_left", "eye_white_right"} |-> 5] @@
    [p \in {"iris_left", "iris_right"} |-> 6] @@
    [p \in {"highlight_left", "highlight_right"} |-> 7] @@
    [p \in {"eyebrows_left", "eyebrows_right"} |-> 8] @@
    [p \in {"nose"} |-> 9] @@ [p \in {"mouth"} |-> 10] @@
    [p \in {"upper_lip", "lower_lip"} |-> 11] @@
    [p \in {"hair_side"} |-> 12] @@ [p \in {"hair_front"} |-> 13] @@
    [p \in {"accessories"} |-> 14]

\* self.part_hierarchy.get(p, 999), with the default rank given as a parameter
HierarchyGet(p, default) ==
    IF p \in DOMAIN part_hierarchy THEN part_hierarchy[p] ELSE default

\* a sort key that sends a part missing from the table to the front
RankUnrankedFirst(p) == HierarchyGet(p, 0)

\* the sort key of _create_psd: lambda p: self.part_hierarchy.get(p, 999)
rankOf(p) == HierarchyGet(p, 999)

\* the keys of self.part_colors
part_colors_keys ==
    {"hair_front", "hair_side", "hair_back", "face", "eyebrows", "eye_white",
     "iris", "highlight", "nose", "mouth", "upper_lip", "lower_lip", "body",
     "arm", "leg", "accessories"}

\* part_name.split('_')[0] if '_' in part_name else part_name
base_part(p) ==
    CASE p \in {"hair_back", "hair_side", "hair_front"} -> "hair"
      [] p \in {"arm_left", "arm_right"} -> "arm"
      [] p \in {"leg_left", "leg_right"} -> "leg"
      [] p \in {"eye_white_left", "eye_white_right"} -> "eye"
      [] p \in {"iris_left", "iris_right"} -> "iris"
      [] p \in {"highlight_left", "highlight_right"} -> "highlight"
      [] p \in {"eyebrows_left", "eyebrows_right"} -> "eyebrows"
      [] p = "upper_lip" -> "upper"
      [] p = "lower_lip" -> "lower"
      [] OTHER -> p

\* _segment_with_sam finds colour hints for the part (it returns [] otherwise)
HasColorHints(p) == base_part(p) \in part_colors_keys \/ p \in part_colors_keys

\* "eye" in part_name, "mouth" in part_name, "hair" in part_name
ContainsEye(p) ==
    p \in {"eye_white_left", "eye_white_right", "eyebrows_left", "eyebrows_right",
           "eyebrows"}
ContainsMouth(p) == p = "mouth"
ContainsHair(p) == p \in {"hair_back", "hair_side", "hair_front"}

\* Position (1-based) that element i takes in a sort of a list whose sort keys
\* are keys[1], keys[2], ...: ascending when desc is FALSE, descending when TRUE;
\* equal keys keep their order in the list when stable is TRUE and reverse it
\* otherwise.
SortPos(keys, i, desc, stable) ==
    1 + Cardinality({j \in 1..Len(keys) :
            \/ (IF desc THEN keys[j] > keys[i] ELSE keys[j] < keys[i])
            \/ /\ keys[j] = keys[i]
               /\ (IF stable THEN j < i ELSE j > i)})

SortWith(s, keys, desc, stable) ==
    [k \in 1..Len(s) |->
        s[CHOOSE i \in 1..Len(s) : SortPos(keys, i, desc, stable) = k]]

\* a sort that reverses the elements of equal key
sorted_unstable(s, keys, reverse) == SortWith(s, keys, reverse, FALSE)

\* Python's sorted(s, key=..., reverse=reverse), keys[i] being the key of s[i]:
\* stable in both directions
sorted(s, keys, reverse) == SortWith(s, keys, reverse, TRUE)

----------------------------------------------------------------------------
(* Images and masks.  A mask is the set of its True pixels; an image maps  *)
(* each pixel to its colour (rgb, one number for the three channels) and   *)
(* its alpha.                                                              *)

Pixels(sz) == (0..(sz[1] - 1)) \X (0..(sz[2] - 1))

\* image sizes <<height, width>> the inputs are drawn from
ImageSizes == {<<1, 1>>, <<1, 2>>, <<2, 1>>, <<2, 2>>}

\* The image with its background removed (RGBA): every pixel has its own
\* colour, and alpha 0 where the background was removed.
SourceImage(sz) ==
    [p \in Pixels(sz) |->
        [rgb |-> 1 + p[1] * sz[2] + p[2],
         a |-> IF (p[1] + p[2]) % 2 = 0 THEN 255 ELSE 0]]

\* None, and a returned image
None == [some |-> FALSE]
Some(img) == [some |-> TRUE, img |-> img]

\* masks = self._segment_with_sam(np_image, part_name) when the configured model
\* is segment_anything (separate has loaded the predictor then); [] otherwise.
\* out is what the predictor answers over all colour hints.
MasksFromModel(cfg, p, out) ==
    IF cfg.segmentation_model = "segment_anything" /\ HasColorHints(p)
    THEN out ELSE <<>>

\* the fall-back masks of _segment_part
EyeRegion(sz) ==
    {q \in Pixels(sz) : /\ sz[1] \div 4 <= q[1] /\ q[1] < sz[1] \div 2
                        /\ sz[2] \div 4 <= q[2] /\ q[2] < (3 * sz[2]) \div 4}
MouthRegion(sz) ==
    {q \in Pixels(sz) : /\ sz[1] \div 2 <= q[1] /\ q[1] < (3 * sz[1]) \div 4
                        /\ sz[2] \div 3 <= q[2] /\ q[2] < (2 * sz[2]) \div 3}
HairRegion(sz) == {q \in Pixels(sz) : q[1] < sz[1] \div 2}

\* "if not masks:" and the fall-back by part name
MasksAfterFallback(sz, p, ms) ==
    IF ms # <<>> THEN ms
    ELSE IF ContainsEye(p) THEN <<EyeRegion(sz)>>
    ELSE IF ContainsMouth(p) THEN <<MouthRegion(sz)>>
    ELSE IF ContainsHair(p) THEN <<HairRegion(sz)>>
    ELSE <<>>

\* m.sum()
Area(m) == Cardinality(m)

\* a selection that takes the last of the masks of largest area
SelectMaskLastOfTies(ms) ==
    sorted_unstable(ms, [i \in 1..Len(ms) |-> Area(ms[i])], TRUE)[1]

\* sorted(masks, key=lambda m: m.sum(), reverse=True)[0]
SelectMask(ms) == sorted(ms, [i \in 1..Len(ms) |-> Area(ms[i])], TRUE)[1]

\* a composite that keeps the source alpha instead of setting 255
ApplyMaskKeepAlpha(sz, m) ==
    LET src == SourceImage(sz) IN
    [q \in Pixels(sz) |->
        IF q \in m THEN [rgb |-> src[q].rgb, a |-> src[q].a]
        ELSE [rgb |-> 0, a |-> 0]]

\* result = zeros; result[mask, :3] = np_image[mask, :3]; result[mask, 3] = 255
ApplyMask(sz, m) ==
    LET src == SourceImage(sz) IN
    [q \in Pixels(sz) |->
        IF q \in m THEN [rgb |-> src[q].rgb, a |-> 255]
        ELSE [rgb |-> 0, a |-> 0]]

\* cv2's BORDER_REFLECT_101 index into an axis of length n
Reflect101(i, n) ==
    IF n = 1 THEN 0
    ELSE LET period == 2 * (n - 1)
             m == (i + 4 * period) % period
         IN  IF m < n THEN m ELSE period - m

\* the 5-tap kernel of cv2.GaussianBlur(alpha, (5, 5), 0), in sixteenths
GaussKernel == <<1, 4, 6, 4, 1>>

RECURSIVE SumOver(_, _)
SumOver(S, f) ==
    IF S = {} THEN 0
    ELSE LET x == CHOOSE y \in S : TRUE IN f[x] + SumOver(S \ {x}, f)

\* alpha_blurred = cv2.GaussianBlur(alpha, (5, 5), 0); putalpha(alpha_blurred)
RefineEdges(sz, img) ==
    LET taps == (1..5) \X (1..5)
        blurred(q) ==
            LET w == [t \in taps |->
                        GaussKernel[t[1]] * GaussKernel[t[2]] *
                        img[<<Reflect101(q[1] + t[1] - 3, sz[1]),
                              Reflect101(q[2] + t[2] - 3, sz[2])>>].a]
            IN  (SumOver(taps, w) + 128) \div 256
    IN  [q \in Pixels(sz) |-> [rgb |-> img[q].rgb, a |-> blurred(q)]]

\* a tail that gives up on a selected mask without True pixels
ImageFromMasksDropEmpty(cfg, sz, ms) ==
    IF ms = <<>> \/ Area(SelectMask(ms)) = 0 THEN None
    ELSE LET img == ApplyMask(sz, SelectMask(ms)) IN
         Some(IF cfg.refine_edges THEN RefineEdges(sz, img) ELSE img)

\* the tail of _segment_part from "if masks:" on
ImageFromMasks(cfg, sz, ms) ==
    IF ms = <<>> THEN None
    ELSE LET img == ApplyMask(sz, SelectMask(ms)) IN
         Some(IF cfg.refine_edges THEN RefineEdges(sz, img) ELSE img)

\* _segment_part(image, part_name), given the predictor's answer
SegmentPart(cfg, sz, p, out) ==
    ImageFromMasks(cfg, sz, MasksAfterFallback(sz, p, MasksFromModel(cfg, p, out)))

----------------------------------------------------------------------------
(* LayerSeparator.separate, from the loop over the parts on.  The model    *)
(* loading and the background removal before it are external calls.        *)

\* part names the configured list of parts is drawn from: ranked ones (two of
\* them of equal rank) and "eyebrows", which the hierarchy does not list
PartNames == {"hair_back", "face", "eyebrows", "arm_left", "arm_right"}

SegmentationModels == {"segment_anything", "u2net"}

\* image sizes of the runs of separate
SeparateSizes == {<<2, 2>>}

\* lists of distinct part names
DistinctSeqs(S, n) ==
    {s \in SeqsUpTo(S, n) : \A i, j \in 1..Len(s) : s[i] = s[j] => i = j}

LayersConfigs ==
    [parts : DistinctSeqs(PartNames, MaxParts),
     segmentation_model : SegmentationModels,
     refine_edges : BOOLEAN,
     fill_background : BOOLEAN,
     export_psd : BOOLEAN]

\* what the predictor may answer in a run of separate: no mask, a mask without
\* True pixels, a mask of the whole image
SamOutcomes(cfg, sz, p) ==
    IF cfg.segmentation_model = "segment_anything" /\ HasColorHints(p)
    THEN {<<>>, <<{}>>, <<Pixels(sz)>>}
    ELSE {<<>>}

Keys(d) == [i \in 1..Len(d) |-> d[i].name]

\* d[k] = v on a dict: a new key goes last, a known key keeps its place
DictSet(d, k, v) ==
    IF k \in Range(Keys(d))
    THEN [i \in 1..Len(d) |-> IF d[i].name = k THEN [name |-> k, img |-> v] ELSE d[i]]
    ELSE Append(d, [name |-> k, img |-> v])

\* Image.new("RGBA", no_bg_image.size, bg_color)
BackgroundImage(sz) == [q \in Pixels(sz) |-> [rgb |-> 100, a |-> 255]]

\* the sort keys of the dict's keys
RanksUnrankedFirst(d) == [i \in 1..Len(d) |-> RankUnrankedFirst(d[i].name)]
Ranks(d) == [i \in 1..Len(d) |-> rankOf(d[i].name)]

\* an order that ranks a part missing from the hierarchy first
OrderedPartsUnrankedFirst(d) == sorted(Keys(d), RanksUnrankedFirst(d), FALSE)

\* an order that does not keep the dict order among equal ranks
OrderedPartsUnstable(d) == sorted_unstable(Keys(d), Ranks(d), FALSE)

\* an order that is the order of the dict, unsorted
OrderedPartsUnsorted(d) == Keys(d)

\* ordered_parts = sorted(layers.keys(), key=lambda p: self.part_hierarchy.get(p, 999))
OrderedParts(d) == sorted(Keys(d), Ranks(d), FALSE)

SegIdle ==
    /\ spc = "idle" /\ part_name = "" /\ sam_output = <<>> /\ masks = <<>>
    /\ selected_mask = {} /\ segmented = None

BlinkIdle ==
    /\ bpc = "idle" /\ speed10 = 10 /\ random_blink = FALSE /\ blink_duration = 0
    /\ interval = 0 /\ current_time = 0 /\ step = 0 /\ keyframes = <<>>
    /\ waits = <<>>

CreateIdle ==
    /\ cpc = "idle"
    /\ curve_call = [fn |-> "none", axis |-> "", range_values |-> <<0, 0>>,
                     depth |-> 0, speed |-> 0]
    /\ draws = <<>>
    /\ curve = <<>>

GenIdle ==
    /\ gpc = "idle" /\ run = 0 /\ parameters_config = <<>> /\ rng = 0 /\ rng0 = 0
    /\ eye_open_curve = <<>> /\ lip_sync_data = <<>> /\ x_curve = <<>>
    /\ y_curve = <<>> /\ z_curve = <<>> /\ breathing_curve = <<>>
    /\ project_path = "" /\ produced = {} /\ first_run = <<>> /\ result = "none"

RegIdle ==
    /\ rpc = "idle"
    /\ reg_call = [name |-> "", min_value |-> 0, max_value |-> 0]
    /\ reg_idx = 0 /\ created = <<>> /\ reg_result = "none"

ExprIdle ==
    /\ xpc = "idle" /\ preset_expressions = <<>> /\ x_idx = 0 /\ expressions = <<>>
    /\ x_result = <<>>

AutoIdle ==
    /\ apc = "idle"
    /\ cubism_config = [automation_method |-> "", automated_steps |-> <<>>,
                        auto_parameters |-> FALSE, physics_enabled |-> FALSE]
    /\ psd_exists = FALSE /\ a_idx = 0 /\ cubism_running = FALSE /\ started = FALSE
    /\ performed = <<>> /\ a_result = "none"

MainIdle ==
    /\ mpc = "idle"
    /\ args = [skip_character |-> FALSE, skip_layer |-> FALSE, skip_cubism |-> FALSE,
               skip_parameters |-> FALSE, skip_export |-> FALSE,
               character_image |-> "None", layer_dir |-> "None"]
    /\ character_path = "None" /\ layers_dir = "None" /\ cubism_project = "None"
    /\ stages = <<>>

GuiIdle ==
    /\ upc = "idle" /\ found_dirs = {}
    /\ separation = [outcome |-> "none", dir |-> 0, shared |-> FALSE]
    /\ gui_layers_dir = 0 /\ called = <<>> /\ gui_result = "none"

PipeIdle == ExprIdle /\ AutoIdle /\ MainIdle /\ GuiIdle

Init ==
    /\ pc = "segment"
    /\ layers_config \in LayersConfigs
    /\ size \in SeparateSizes
    /\ idx = 0
    /\ layers = <<>>
    /\ psd_layers = <<>>
    /\ psd_saved = FALSE
    /\ candidates = <<>>
    /\ SegIdle
    /\ BlinkIdle
    /\ CreateIdle
    /\ GenIdle
    /\ RegIdle
    /\ PipeIdle

\* one turn of "for part_name in tqdm(parts)": _segment_part, then the layer is
\* kept "if segmented_part"
SegmentNext ==
    /\ pc = "segment"
    /\ idx < Len(layers_config.parts)
    /\ LET p == layers_config.parts[idx + 1] IN
       \E out \in SamOutcomes(layers_config, size, p) :
          LET ms == MasksAfterFallback(size, p, MasksFromModel(layers_config, p, out))
              r == SegmentPart(layers_config, size, p, out)
          IN  /\ layers' = IF r.some THEN DictSet(layers, p, r.img) ELSE layers
              /\ candidates' = Append(candidates, Len(ms))
    /\ idx' = idx + 1
    /\ UNCHANGED <<pc, layers_config, size, psd_layers, psd_saved>>
    /\ UNCHANGED <<segVars, blinkVars, createVars, genVars, regVars, pipeVars>>

\* after the loop: "if self.layers_config['fill_background']"
Background ==
    /\ pc = "segment"
    /\ idx = Len(layers_config.parts)
    /\ layers' = IF layers_config.fill_background
                 THEN DictSet(layers, "background", BackgroundImage(size))
                 ELSE layers
    /\ pc' = "psd"
    /\ UNCHANGED <<layers_config, size, idx, psd_layers, psd_saved, candidates>>
    /\ UNCHANGED <<segVars, blinkVars, createVars, genVars, regVars, pipeVars>>

\* _create_psd with psd_tools installed and at least one layer
CreatePsd ==
    /\ pc = "psd"
    /\ layers_config.export_psd
    /\ layers # <<>>
    /\ psd_layers' = OrderedParts(layers)
    /\ psd_saved' = TRUE
    /\ pc' = "done"
    /\ UNCHANGED <<layers_config, size, idx, layers, candidates>>
    /\ UNCHANGED <<segVars, blinkVars, createVars, genVars, regVars, pipeVars>>

\* _create_psd with psd_tools installed and no layer: next(iter(layers.values()))
\* raises StopIteration, which "except ImportError" does not catch
CreatePsdEmpty ==
    /\ pc = "psd"
    /\ layers_config.export_psd
    /\ layers = <<>>
    /\ pc' = "raised"
    /\ UNCHANGED <<layers_config, size, idx, layers, psd_layers, psd_saved, candidates>>
    /\ UNCHANGED <<segVars, blinkVars, createVars, genVars, regVars, pipeVars>>

\* _create_psd without psd_tools: the ImportError is logged, no PSD is made
CreatePsdImportError ==
    /\ pc = "psd"
    /\ layers_config.export_psd
    /\ pc' = "done"
    /\ UNCHANGED <<layers_config, size, idx, layers, psd_layers, psd_saved, candidates>>
    /\ UNCHANGED <<segVars, blinkVars, createVars, genVars, regVars, pipeVars>>

\* export_psd is off: return output_subdir
ReturnWithoutPsd ==
    /\ pc = "psd"
    /\ ~layers_config.export_psd
    /\ pc' = "done"
    /\ UNCHANGED <<layers_config, size, idx, layers, psd_layers, psd_saved, candidates>>
    /\ UNCHANGED <<segVars, blinkVars, createVars, genVars, regVars, pipeVars>>

Next ==
    \/ SegmentNext
    \/ Background
    \/ CreatePsd
    \/ CreatePsdEmpty
    \/ CreatePsdImportError
    \/ ReturnWithoutPsd

Spec == Init /\ [][Next]_vars

----------------------------------------------------------------------------
(* One call of LayerSeparator._segment_part, statement by statement.       *)

\* part names of the segmented part: with colour hints or without, with each
\* of the three fall-back regions or with none
SegmentPartNames ==
    {"hair_back", "face", "eyebrows", "arm_left", "mouth", "eye_white_left", "tail"}

SegmentConfigs ==
    [parts : {<<>>},
     segmentation_model : SegmentationModels,
     refine_edges : BOOLEAN,
     fill_background : {FALSE},
     export_psd : {FALSE}]

InitSegment ==
    /\ pc = "idle"
    /\ layers_config \in SegmentConfigs
    /\ size \in ImageSizes
    /\ idx = 0
    /\ layers = <<>>
    /\ psd_layers = <<>>
    /\ psd_saved = FALSE
    /\ candidates = <<>>
    /\ spc = "sam"
    /\ part_name \in SegmentPartNames
    /\ sam_output \in
         IF layers_config.segmentation_model = "segment_anything"
            /\ HasColorHints(part_name)
         THEN SeqsUpTo(SUBSET Pixels(size), MaxMasks)
         ELSE {<<>>}
    /\ masks = <<>>
    /\ selected_mask = {}
    /\ segmented = None
    /\ BlinkIdle
    /\ CreateIdle
    /\ GenIdle
    /\ RegIdle
    /\ PipeIdle

\* masks = []; if segmentation_model == "segment_anything": masks = _segment_with_sam
SegModel ==
    /\ spc = "sam"
    /\ masks' = MasksFromModel(layers_config, part_name, sam_output)
    /\ spc' = "fallback"
    /\ UNCHANGED <<part_name, sam_output, selected_mask, segmented>>
    /\ UNCHANGED <<layerVars, blinkVars, createVars, genVars, regVars, pipeVars>>

\* if not masks: the fall-back region by part name
SegFallback ==
    /\ spc = "fallback"
    /\ masks' = MasksAfterFallback(size, part_name, masks)
    /\ spc' = "select"
    /\ UNCHANGED <<part_name, sam_output, selected_mask, segmented>>
    /\ UNCHANGED <<layerVars, blinkVars, createVars, genVars, regVars, pipeVars>>

\* if masks: select the largest mask and apply it
SegSelect ==
    /\ spc = "select"
    /\ masks # <<>>
    /\ selected_mask' = SelectMask(masks)
    /\ segmented' = Some(ApplyMask(size, SelectMask(masks)))
    /\ spc' = IF layers_config.refine_edges THEN "refine" ELSE "returned"
    /\ UNCHANGED <<part_name, sam_output, masks>>
    /\ UNCHANGED <<layerVars, blinkVars, createVars, genVars, regVars, pipeVars>>

\* if self.layers_config['refine_edges']: blur the alpha channel
SegRefine ==
    /\ spc = "refine"
    /\ segmented' = Some(RefineEdges(size, segmented.img))
    /\ spc' = "returned"
    /\ UNCHANGED <<part_name, sam_output, masks, selected_mask>>
    /\ UNCHANGED <<layerVars, blinkVars, createVars, genVars, regVars, pipeVars>>

\* no mask: return None
SegNone ==
    /\ spc = "select"
    /\ masks = <<>>
    /\ segmented' = None
    /\ spc' = "returned"
    /\ UNCHANGED <<part_name, sam_output, masks, selected_mask>>
    /\ UNCHANGED <<layerVars, blinkVars, createVars, genVars, regVars, pipeVars>>

NextSegment ==
    \/ SegModel
    \/ SegFallback
    \/ SegSelect
    \/ SegRefine
    \/ SegNone

SpecSegment == InitSegment /\ [][NextSegment]_vars

\* the statements of _segment_part and SegmentPart, which separate uses, agree
SegmentStepsAgree ==
    spc = "returned" =>
        segmented = SegmentPart(layers_config, size, part_name, sam_output)

----------------------------------------------------------------------------
(* Properties of the layer stack (specification Spec)                      *)

IndexIn(s, x) == CHOOSE i \in 1..Len(s) : s[i] = x

Ranked(p) == p \in DOMAIN part_hierarchy

\* the PSD holds every layer of the dict exactly once
StackIsTheLayers ==
    /\ Len(psd_layers) = Len(layers)
    /\ Range(psd_layers) = Range(Keys(layers))

\* C1: in the stack built from any set of named layers, a part of lower rank
\* precedes every part of higher rank, and a part missing from the hierarchy
\* table comes after every part the table ranks.
C1_RankOrder ==
    psd_saved =>
        /\ StackIsTheLayers
        /\ \A i, j \in 1..Len(psd_layers) :
              LET a == psd_layers[i]
                  b == psd_layers[j]
              IN  /\ (Ranked(a) /\ Ranked(b) /\ part_hierarchy[a] < part_hierarchy[b])
                        => i < j
                  /\ (Ranked(a) /\ ~Ranked(b)) => i < j

\* hair_back, face and eyebrows, put into the dict in the opposite order, come
\* out as hair_back, face, eyebrows
C1_Witness ==
    /\ psd_saved
    /\ Keys(layers) = <<"eyebrows", "face", "hair_back">>
    /\ psd_layers = <<"hair_back", "face", "eyebrows">>

\* C2: parts of equal rank appear in the stack in the iteration order of the
\* layer dict, which is the order of the configured list of parts.
C2_TiesKeepInputOrder ==
    psd_saved =>
        \A i, j \in 1..Len(psd_layers) :
            LET a == psd_layers[i]
                b == psd_layers[j]
            IN  (i < j /\ rankOf(a) = rankOf(b)) =>
                    /\ IndexIn(Keys(layers), a) < IndexIn(Keys(layers), b)
                    /\ (a \in Range(layers_config.parts) /\ b \in Range(layers_config.parts))
                          => IndexIn(layers_config.parts, a) < IndexIn(layers_config.parts, b)

\* arm_right was configured before arm_left, both of rank 3, and precedes it
\* in the stack
C2_Witness ==
    /\ psd_saved
    /\ \E i, j \in 1..Len(psd_layers) :
          /\ i < j
          /\ psd_layers[i] = "arm_right"
          /\ psd_layers[j] = "arm_left"

\* C3: composing an empty set of layers returns an empty stack and raises no
\* error.
C3_EmptyComposeIsNoError ==
    (pc \in {"done", "raised"} /\ layers_config.export_psd /\ layers = <<>>) =>
        (pc = "done" /\ psd_layers = <<>>)

\* C4 as claimed: every requested part is present in the layers produced, and
\* in the stack when one is made.
C4_EveryRequestedPartKept ==
    pc = "done" =>
        \A i \in 1..Len(layers_config.parts) :
            /\ layers_config.parts[i] \in Range(Keys(layers))
            /\ psd_saved => layers_config.parts[i] \in Range(psd_layers)

AllTransparent(img) == \A q \in DOMAIN img : img[q].a = 0

\* C4 as amended: a requested part is kept exactly when its segmentation, the
\* fall-back included, had at least one candidate mask, also when the selected
\* mask has no True pixel; a part without any candidate mask is dropped.
C4_PartKeptIffSomeMask ==
    /\ Len(candidates) = idx
    /\ \A i \in 1..idx :
          candidates[i] > 0 <=> layers_config.parts[i] \in Range(Keys(layers))
    /\ psd_saved => StackIsTheLayers

\* a stack that holds a layer without any opaque pixel, from a run that dropped
\* another part
C4_Witness ==
    /\ psd_saved
    /\ \E k \in 1..Len(layers) :
          /\ layers[k].name \in Range(layers_config.parts)
          /\ AllTransparent(layers[k].img)
          /\ layers[k].name \in Range(psd_layers)
    /\ \E i \in 1..idx : candidates[i] = 0

----------------------------------------------------------------------------
(* Properties of one segmented part (specification SpecSegment)            *)

\* C5: with edge refinement disabled, a pixel of the selected mask has the
\* colour of the source image and alpha 255, and every other pixel is fully
\* transparent.
C5_MaskedComposite ==
    (spc = "returned" /\ segmented.some /\ ~layers_config.refine_edges) =>
        \A q \in Pixels(size) :
            IF q \in selected_mask
            THEN segmented.img[q] = [rgb |-> SourceImage(size)[q].rgb, a |-> 255]
            ELSE segmented.img[q].a = 0

\* a returned layer whose mask holds a pixel that is transparent in the source
\* and leaves another pixel out
C5_Witness ==
    /\ spc = "returned"
    /\ segmented.some
    /\ ~layers_config.refine_edges
    /\ \E q \in selected_mask : SourceImage(size)[q].a = 0
    /\ selected_mask # Pixels(size)

----------------------------------------------------------------------------
(* ParametersGenerator._create_eye_blink_curve, statement by statement.    *)

\* the values of blink_speed the curve is made for, in tenths: 0.5, 1.0 and 2.0
Speeds10 == {5, 10, 20}

\* random.uniform(a, b) is a + (b - a) * random(); the draw random() is n / d
Uniform(a, b, n, d) == a + ((b - a) * n) \div d

\* blink_duration = 0.3 / speed
BlinkDuration(s10) == (Ms(300) * 10) \div s10

\* a longer fixed interval
FixedIntervalLong == Ms(5000)

\* interval = 4.0
FixedInterval == Ms(4000)

\* interval = random.uniform(2.0, 6.0)
IntervalChoices == {Uniform(Ms(2000), Ms(6000), n, IntervalSteps) : n \in 0..IntervalSteps}

\* total_time = 10.0
total_time == Ms(10000)

\* a draw between half the interval and 1.3 times the interval
WaitChoicesWide(i) ==
    {Uniform((i * 5) \div 10, (i * 13) \div 10, n, GapSteps) : n \in 0..GapSteps}

\* wait_time = random.uniform(interval * 0.7, interval * 1.3)
WaitChoices(i) ==
    {Uniform((i * 7) \div 10, (i * 13) \div 10, n, GapSteps) : n \in 0..GapSteps}

\* a loop body that holds the eye closed for 0.02 s and has no second 0.0 keyframe
BlinkBodyShortDwell ==
    << [dt |-> 0, value |-> 10],
       [dt |-> 20, value |-> 9], [dt |-> 20, value |-> 7], [dt |-> 20, value |-> 5],
       [dt |-> 20, value |-> 2], [dt |-> 20, value |-> 0],
       [dt |-> 20, value |-> 2], [dt |-> 20, value |-> 5], [dt |-> 20, value |-> 7],
       [dt |-> 20, value |-> 9], [dt |-> 20, value |-> 10], [dt |-> 20, value |-> 10] >>

\* a loop body that adds no time before its seventh append
BlinkBodyNoDwell ==
    << [dt |-> 0, value |-> 10],
       [dt |-> 20, value |-> 9], [dt |-> 20, value |-> 7], [dt |-> 20, value |-> 5],
       [dt |-> 20, value |-> 2], [dt |-> 20, value |-> 0],
       [dt |-> 0, value |-> 0],
       [dt |-> 20, value |-> 2], [dt |-> 20, value |-> 5], [dt |-> 20, value |-> 7],
       [dt |-> 20, value |-> 9], [dt |-> 20, value |-> 10] >>

\* The twelve appends of the loop body: the time added to current_time before
\* the append (ms) and the value appended (tenths).
BlinkBody ==
    << [dt |-> 0, value |-> 10],
       [dt |-> 20, value |-> 9], [dt |-> 20, value |-> 7], [dt |-> 20, value |-> 5],
       [dt |-> 20, value |-> 2], [dt |-> 20, value |-> 0],
       [dt |-> 60, value |-> 0],
       [dt |-> 20, value |-> 2], [dt |-> 20, value |-> 5], [dt |-> 20, value |-> 7],
       [dt |-> 20, value |-> 9], [dt |-> 20, value |-> 10] >>

LayersIdle ==
    /\ pc = "idle"
    /\ layers_config = [parts |-> <<>>, segmentation_model |-> "u2net",
                        refine_edges |-> FALSE, fill_background |-> FALSE,
                        export_psd |-> FALSE]
    /\ size = <<1, 1>>
    /\ idx = 0
    /\ layers = <<>>
    /\ psd_layers = <<>>
    /\ psd_saved = FALSE
    /\ candidates = <<>>

InitBlink ==
    /\ LayersIdle
    /\ SegIdle
    /\ CreateIdle
    /\ GenIdle
    /\ RegIdle
    /\ PipeIdle
    /\ bpc = "start"
    /\ speed10 \in Speeds10
    /\ random_blink \in BOOLEAN
    /\ blink_duration = 0
    /\ interval = 0
    /\ current_time = 0
    /\ step = 0
    /\ keyframes = <<>>
    /\ waits = <<>>

\* keyframes = []; blink_duration; interval; total_time; current_time = 0.0
BlinkStart ==
    /\ bpc = "start"
    /\ blink_duration' = BlinkDuration(speed10)
    /\ interval' \in IF random_blink THEN IntervalChoices ELSE {FixedInterval}
    /\ current_time' = 0
    /\ bpc' = "head"
    /\ UNCHANGED <<speed10, random_blink, step, keyframes, waits>>
    /\ UNCHANGED <<layerVars, segVars, createVars, genVars, regVars, pipeVars>>

\* while current_time < total_time: the first append of the body
BlinkOpen ==
    /\ bpc = "head"
    /\ current_time < total_time
    /\ keyframes' = Append(keyframes, [time |-> current_time, value |-> BlinkBody[1].value])
    /\ step' = 1
    /\ bpc' = "body"
    /\ UNCHANGED <<speed10, random_blink, blink_duration, interval, current_time, waits>>
    /\ UNCHANGED <<layerVars, segVars, createVars, genVars, regVars, pipeVars>>

\* current_time += ...; keyframes.append(...): the second to twelfth append
BlinkFrame ==
    /\ bpc = "body"
    /\ step < Len(BlinkBody)
    /\ current_time' = current_time + Ms(BlinkBody[step + 1].dt)
    /\ keyframes' = Append(keyframes,
                           [time |-> current_time', value |-> BlinkBody[step + 1].value])
    /\ step' = step + 1
    /\ bpc' = IF step + 1 = Len(BlinkBody) THEN "wait" ELSE "body"
    /\ UNCHANGED <<speed10, random_blink, blink_duration, interval, waits>>
    /\ UNCHANGED <<layerVars, segVars, createVars, genVars, regVars, pipeVars>>

\* wait_time is drawn or is the interval; current_time += wait_time
BlinkWait ==
    /\ bpc = "wait"
    /\ \E w \in (IF random_blink THEN WaitChoices(interval) ELSE {interval}) :
          /\ current_time' = current_time + w
          /\ waits' = Append(waits, w)
    /\ step' = 0
    /\ bpc' = "head"
    /\ UNCHANGED <<speed10, random_blink, blink_duration, interval, keyframes>>
    /\ UNCHANGED <<layerVars, segVars, createVars, genVars, regVars, pipeVars>>

\* the loop condition fails: return keyframes
BlinkReturn ==
    /\ bpc = "head"
    /\ current_time >= total_time
    /\ bpc' = "returned"
    /\ UNCHANGED <<speed10, random_blink, blink_duration, interval, current_time,
                   step, keyframes, waits>>
    /\ UNCHANGED <<layerVars, segVars, createVars, genVars, regVars, pipeVars>>

NextBlink ==
    \/ BlinkStart
    \/ BlinkOpen
    \/ BlinkFrame
    \/ BlinkWait
    \/ BlinkReturn

SpecBlink == InitBlink /\ [][NextBlink]_vars

----------------------------------------------------------------------------
(* Properties of the blink curve (specification SpecBlink)                 *)

\* the values of one blink cycle as claimed, in tenths
ClaimedValues == <<10, 9, 7, 5, 2, 0, 0, 2, 5, 7, 9, 10>>

\* keyframes per blink cycle
CycleLen == Len(ClaimedValues)

\* number of cycles whose twelve keyframes are all in the list
FullCycles == Len(keyframes) \div CycleLen

\* keyframe k (1..12) of cycle c (1..)
KeyframeOf(c, k) == keyframes[(c - 1) * CycleLen + k]

\* the state of the eye at keyframe k of the list, read off the values: open at
\* 1.0, closed at 0.0, closing while the value falls, opening while it rises
EyeState(k) ==
    IF keyframes[k].value = 10 THEN "OPEN"
    ELSE IF keyframes[k].value = 0 THEN "CLOSED"
    ELSE IF keyframes[k].value < keyframes[k - 1].value THEN "CLOSING"
    ELSE "OPENING"

\* C6: every blink cycle goes through OPEN, CLOSING, CLOSED, OPENING, OPEN in
\* that order, with the values 1.0, 0.9, 0.7, 0.5, 0.2, 0.0, 0.0, 0.2, 0.5, 0.7,
\* 0.9, 1.0: it starts and ends at 1.0 and is 0.0 at the midpoint of the cycle;
\* the curve handed back holds whole cycles only.
C6_BlinkShape ==
    /\ \A k \in 1..Len(keyframes) :
          /\ keyframes[k].value = ClaimedValues[((k - 1) % CycleLen) + 1]
          /\ EyeState(k) =
                <<"OPEN", "CLOSING", "CLOSING", "CLOSING", "CLOSING", "CLOSED",
                  "CLOSED", "OPENING", "OPENING", "OPENING", "OPENING",
                  "OPEN">>[((k - 1) % CycleLen) + 1]
    /\ \A c \in 1..FullCycles :
          /\ KeyframeOf(c, 1).value = 10
          /\ KeyframeOf(c, CycleLen).value = 10
          /\ KeyframeOf(c, 6).value = 0
          /\ KeyframeOf(c, 7).value = 0
          /\ 2 * KeyframeOf(c, 6).time <= KeyframeOf(c, 1).time + KeyframeOf(c, CycleLen).time
          /\ KeyframeOf(c, 1).time + KeyframeOf(c, CycleLen).time <= 2 * KeyframeOf(c, 7).time
    /\ bpc \in {"head", "returned"} => Len(keyframes) = FullCycles * CycleLen

\* a returned curve of at least two cycles
C6_Witness ==
    /\ bpc = "returned"
    /\ FullCycles >= 2

Abs(x) == IF x < 0 THEN -x ELSE x

\* the sampling step of the curves, 0.1 s
SamplingStep == Ms(100)

\* C7: for every speed, the full blink cycle lasts 0.3 / speed seconds to within
\* one sampling step.
C7_CycleLastsBlinkDuration ==
    \A c \in 1..FullCycles :
        Abs((KeyframeOf(c, CycleLen).time - KeyframeOf(c, 1).time)
            - (Ms(300) * 10) \div speed10) <= SamplingStep

\* C8 as claimed: with blink_speed 1.0 and random_blink false the curve holds
\* exactly 2 full blink cycles.
C8_TwoCycles ==
    (bpc = "returned" /\ speed10 = 10 /\ ~random_blink) =>
        (FullCycles = 2 /\ Len(keyframes) = 2 * CycleLen)

\* C8 as amended: with blink_speed 1.0 and random_blink false the curve holds
\* exactly 3 full blink cycles, starting at 0 s, 4.26 s and 8.52 s.
C8_ThreeCycles ==
    (bpc = "returned" /\ speed10 = 10 /\ ~random_blink) =>
        /\ FullCycles = 3
        /\ Len(keyframes) = 3 * CycleLen
        /\ KeyframeOf(1, 1).time = 0
        /\ KeyframeOf(2, 1).time = Ms(4260)
        /\ KeyframeOf(3, 1).time = Ms(8520)
        /\ KeyframeOf(3, CycleLen).time = Ms(8780)

\* the periodic curve for speed 1.0 has been returned
C8_Witness ==
    /\ bpc = "returned"
    /\ speed10 = 10
    /\ ~random_blink
    /\ Len(keyframes) > 0

\* C9: no keyframe of the blink curve has a time after the 10.0 s horizon.
C9_NoKeyframeAfterHorizon ==
    \A k \in 1..Len(keyframes) : keyframes[k].time <= Ms(10000)

\* C10: the gap between the end of a cycle and the start of the next is the
\* wait drawn after the cycle: exactly 4.0 s without randomisation; with it,
\* within [0.7 * interval, 1.3 * interval] for an interval in [2.0, 6.0] s, hence
\* within [1.4, 7.8] s.
C10_GapBounds ==
    /\ Len(waits) <= FullCycles
    /\ \A c \in 1..Len(waits) :
          /\ (c < FullCycles \/ (c = FullCycles /\ bpc = "body")) =>
                keyframes[c * CycleLen + 1].time - KeyframeOf(c, CycleLen).time = waits[c]
          /\ IF random_blink
             THEN /\ 7 * interval <= 10 * waits[c]
                  /\ 10 * waits[c] <= 13 * interval
                  /\ Ms(2000) <= interval
                  /\ interval <= Ms(6000)
                  /\ Ms(1400) <= waits[c]
                  /\ waits[c] <= Ms(7800)
             ELSE waits[c] = Ms(4000)

\* a randomised curve in which one gap is the shortest the interval allows and
\* another the longest, both followed by a cycle
C10_Witness ==
    /\ random_blink
    /\ bpc = "returned"
    /\ \E c, d \in 1..(FullCycles - 1) :
          /\ 10 * waits[c] = 7 * interval
          /\ 10 * waits[d] = 13 * interval
          /\ keyframes[c * CycleLen + 1].time - KeyframeOf(c, CycleLen).time = waits[c]

----------------------------------------------------------------------------
(* math.sin and math.pi, to four decimals                                  *)

\* 1.0 in the unit of the sine and of the angles (radians)
SinOne == 10^4

\* math.pi
Pi == 31416

TwoPi == 2 * Pi
HalfPi == Pi \div 2

\* the sine of an angle y of the first quarter turn, by the series
\* y - y^3/3! + y^5/5! - y^7/7! + y^9/9! in Horner's form, rounded to four
\* decimals; math.sin never exceeds 1.0
SinQuarter(y) ==
    LET y2 == (y * y) \div SinOne
        a4 == SinOne - y2 \div 72
        a3 == SinOne - ((y2 * a4) \div SinOne) \div 42
        a2 == SinOne - ((y2 * a3) \div SinOne) \div 20
        a1 == SinOne - ((y2 * a2) \div SinOne) \div 6
        sum == (y * a1 + SinOne \div 2) \div SinOne
    IN  IF sum > SinOne THEN SinOne ELSE sum

\* math.sin(x) for x >= 0
Sin(x) ==
    LET r == x % TwoPi
    IN  IF r <= HalfPi THEN SinQuarter(r)
        ELSE IF r <= Pi THEN SinQuarter(Pi - r)
        ELSE IF r <= Pi + HalfPi THEN -SinQuarter(r - Pi)
        ELSE -SinQuarter(TwoPi - r)

\* 2 * math.pi * frequency * time_point + phase at sample t (time_point is
\* t * 0.1 s), for a frequency in mHz: the whole turns are dropped before the
\* product with 2 pi is taken
Angle(mHz, t, phase) == (((mHz * t) % 10^4) * TwoPi) \div 10^4 + phase

----------------------------------------------------------------------------
(* _create_head_rotation_curve, _create_breathing_curve and                *)
(* _create_sample_lip_sync, each as the list it returns.                   *)

\* a loop that stops before the horizon: range(int(total_time / step))
SamplesNoEnd == total_time \div SamplingStep

\* range(int(total_time / step) + 1)
Samples == total_time \div SamplingStep + 1

\* frequency of the axis, in mHz: 0.2, 0.15, and 0.1 for any other axis
Frequency(axis) == IF axis = "x" THEN 200 ELSE IF axis = "y" THEN 150 ELSE 100

\* phase of the axis: 0.0, 1.57, and 3.14 for any other axis
Phase(axis) == IF axis = "x" THEN 0 ELSE IF axis = "y" THEN 15700 ELSE 31400

\* 1.0 degree in the unit of the values of a head rotation curve: mid_val and
\* amplitude are halves, so the values are kept doubled
HeadOne == 2 * SinOne

\* value = mid_val + amplitude * math.sin(2 * math.pi * frequency * time_point + phase)
HeadValue(axis, range_values, t) ==
    (range_values[1] + range_values[2]) * SinOne
        + (range_values[2] - range_values[1]) * Sin(Angle(Frequency(axis), t, Phase(axis)))

\* _create_head_rotation_curve(axis, range_values)
CreateHeadRotationCurve(axis, range_values) ==
    [k \in 1..Samples |->
        [time |-> (k - 1) * SamplingStep, value |-> HeadValue(axis, range_values, k - 1)]]

\* 1.0 in the unit of the values of the breathing curve: the depth is in
\* hundredths and halved
BreathOne == 200 * SinOne

\* frequency = 0.25 * speed, in mHz, for a speed in tenths
BreathFrequency(s10) == 25 * s10

\* a breathing value whose amplitude is the whole depth
BreathingValueFullDepth(depth, s10, t) ==
    100 * SinOne + 2 * depth * Sin(Angle(BreathFrequency(s10), t, 0))

\* value = 0.5 + depth * 0.5 * math.sin(2 * math.pi * frequency * time_point)
BreathingValue(depth, s10, t) ==
    100 * SinOne + depth * Sin(Angle(BreathFrequency(s10), t, 0))

\* _create_breathing_curve(depth, speed)
CreateBreathingCurve(depth, s10) ==
    [k \in 1..Samples |->
        [time |-> (k - 1) * SamplingStep, value |-> BreathingValue(depth, s10, k - 1)]]

\* random.uniform(0.3, 0.7) is drawn on a grid of OpenSteps equal steps
OpenSteps == 1

\* syllable_count = 10
syllable_count == 10

\* a shorter total time, 2.5 s
LipTotalTimeShort == Ms(2500)

\* total_time = 5.0
LipTotalTime == Ms(5000)

\* 1.0 in the unit of the values of the lip-sync curve
LipOne == 10^3

\* the four appends of one turn of "for i in range(syllable_count)", for the
\* draw n of random.uniform(0.3, 0.7)
Syllable(i, n) ==
    LET start_time == i * (LipTotalTime \div syllable_count)
    IN  << [time |-> start_time, value |-> 0],
           [time |-> start_time + Ms(100), value |-> Uniform(300, 700, n, OpenSteps)],
           [time |-> start_time + Ms(200), value |-> 200],
           [time |-> start_time + Ms(300), value |-> 0] >>

\* _create_sample_lip_sync(), the draws being ds[1], ds[2], ...
CreateSampleLipSync(ds) ==
    [k \in 1..(4 * syllable_count) |->
        Syllable((k - 1) \div 4, ds[((k - 1) \div 4) + 1])[((k - 1) % 4) + 1]]

\* the ranges rotation_range_x, rotation_range_y, rotation_range_z are set to
HeadRanges == {<<-30, 30>>, <<-45, 45>>, <<-15, 15>>, <<0, 20>>, <<-10, 5>>, <<5, 5>>}

\* the values breathing_depth is set to, in hundredths
Depths100 == {0, 25, 50, 100, 200}

NoCall == [fn |-> "none", axis |-> "", range_values |-> <<0, 0>>, depth |-> 0, speed |-> 0]

CurveCalls ==
    {[NoCall EXCEPT !.fn = "head", !.axis = a, !.range_values = r] :
        a \in {"x", "y", "z"}, r \in HeadRanges}
    \cup {[NoCall EXCEPT !.fn = "breathing", !.depth = d, !.speed = s] :
        d \in Depths100, s \in Speeds10}
    \cup {[NoCall EXCEPT !.fn = "lip_sync"]}

InitCreate ==
    /\ LayersIdle
    /\ SegIdle
    /\ BlinkIdle
    /\ GenIdle
    /\ RegIdle
    /\ PipeIdle
    /\ cpc = "called"
    /\ curve_call \in CurveCalls
    /\ draws = <<>>
    /\ curve = <<>>

HeadRotationCurve ==
    /\ cpc = "called"
    /\ curve_call.fn = "head"
    /\ curve' = CreateHeadRotationCurve(curve_call.axis, curve_call.range_values)
    /\ cpc' = "returned"
    /\ UNCHANGED <<curve_call, draws>>
    /\ UNCHANGED <<layerVars, segVars, blinkVars, genVars, regVars, pipeVars>>

BreathingCurve ==
    /\ cpc = "called"
    /\ curve_call.fn = "breathing"
    /\ curve' = CreateBreathingCurve(curve_call.depth, curve_call.speed)
    /\ cpc' = "returned"
    /\ UNCHANGED <<curve_call, draws>>
    /\ UNCHANGED <<layerVars, segVars, blinkVars, genVars, regVars, pipeVars>>

SampleLipSync ==
    /\ cpc = "called"
    /\ curve_call.fn = "lip_sync"
    /\ \E ds \in [1..syllable_count -> 0..OpenSteps] :
          /\ draws' = ds
          /\ curve' = CreateSampleLipSync(ds)
    /\ cpc' = "returned"
    /\ UNCHANGED curve_call
    /\ UNCHANGED <<layerVars, segVars, blinkVars, genVars, regVars, pipeVars>>

NextCreate ==
    \/ HeadRotationCurve
    \/ BreathingCurve
    \/ SampleLipSync

InitCurves == InitBlink \/ InitCreate

NextCurves == NextBlink \/ NextCreate

SpecCurves == InitCurves /\ [][NextCurves]_vars

----------------------------------------------------------------------------
(* The parameters CubismAutomation._setup_parameters creates, in order     *)

RigParameters ==
    << [name |-> "AngleX", min |-> -30, max |-> 30],
       [name |-> "AngleY", min |-> -30, max |-> 30],
       [name |-> "AngleZ", min |-> -30, max |-> 30],
       [name |-> "EyeLOpen", min |-> 0, max |-> 1],
       [name |-> "EyeROpen", min |-> 0, max |-> 1],
       [name |-> "EyeBallX", min |-> -1, max |-> 1],
       [name |-> "EyeBallY", min |-> -1, max |-> 1],
       [name |-> "MouthOpen", min |-> 0, max |-> 1],
       [name |-> "MouthForm", min |-> -1, max |-> 1],
       [name |-> "BodyX", min |-> -10, max |-> 10],
       [name |-> "BodyY", min |-> -10, max |-> 10],
       [name |-> "BodyZ", min |-> -10, max |-> 10],
       [name |-> "Breath", min |-> 0, max |-> 1],
       [name |-> "HairMove", min |-> 0, max |-> 1] >>

----------------------------------------------------------------------------
(* Properties of the curves (specification SpecCurves)                     *)

\* the rig parameter of the given name
ParameterOf(name) == CHOOSE p \in Range(RigParameters) : p.name = name

\* every value of the keyframes kfs, whose unit is one, lies in the range of
\* the rig parameter of the given name
WithinRangeOf(kfs, one, name) ==
    \A k \in 1..Len(kfs) :
        /\ ParameterOf(name).min * one <= kfs[k].value
        /\ kfs[k].value <= ParameterOf(name).max * one

\* 1.0 in the unit of the values of the blink curve
BlinkOne == ClaimedValues[1]

\* C11: every keyframe of every curve (blink, lip-sync, head rotation per axis,
\* breathing), for every configuration, has a value within [min, max] of the rig
\* parameter that owns the curve (the eye opening, the mouth opening, the head
\* angle of the axis, the breath), out-of-range values having been clamped
\* into the range.
C11_ValuesWithinOwnersRange ==
    /\ WithinRangeOf(keyframes, BlinkOne, "EyeLOpen")
    /\ cpc = "returned" =>
          /\ curve_call.fn = "lip_sync" => WithinRangeOf(curve, LipOne, "MouthOpen")
          /\ curve_call.fn = "breathing" => WithinRangeOf(curve, BreathOne, "Breath")
          /\ curve_call.fn = "head" =>
                WithinRangeOf(curve, HeadOne,
                              IF curve_call.axis = "x" THEN "AngleX"
                              ELSE IF curve_call.axis = "y" THEN "AngleY" ELSE "AngleZ")

\* C12: for every breathing depth in [0, 1] and every speed > 0, every value of
\* the breathing curve lies in [0, 1]; the curve starts at its centre 0.5, never
\* leaves it by more than depth * 0.5, and reaches 0.5 + depth * 0.5.
C12_BreathingWithinUnit ==
    (/\ cpc = "returned"
     /\ curve_call.fn = "breathing"
     /\ 0 <= curve_call.depth
     /\ curve_call.depth <= 100
     /\ curve_call.speed > 0) =>
        /\ \A k \in 1..Len(curve) :
              /\ 0 <= curve[k].value
              /\ curve[k].value <= BreathOne
              /\ Abs(curve[k].value - BreathOne \div 2) <= curve_call.depth * SinOne
        /\ curve[1].value = BreathOne \div 2
        /\ \E k \in 1..Len(curve) :
              curve[k].value = BreathOne \div 2 + curve_call.depth * SinOne

\* a breathing curve of depth 1.0 that reaches both 0.0 and 1.0
C12_Witness ==
    /\ cpc = "returned"
    /\ curve_call.fn = "breathing"
    /\ curve_call.depth = 100
    /\ \E k \in 1..Len(curve) : curve[k].value = 0
    /\ \E k \in 1..Len(curve) : curve[k].value = BreathOne

\* C13: each head rotation curve and the breathing curve has exactly one
\* keyframe at every multiple of 0.1 s from 0 up to and including 10.0 s, 101
\* keyframes in all, and the value of each is mid + amplitude * sin(2 pi
\* frequency t + phase) at the time t of the keyframe, with mid = (min + max) / 2
\* and amplitude = (max - min) / 2 of the configured range of the axis (0.5 and
\* depth * 0.5 for the breathing).
C13_DenselySampled ==
    (cpc = "returned" /\ curve_call.fn \in {"head", "breathing"}) =>
        /\ Len(curve) = Ms(10000) \div Ms(100) + 1
        /\ Len(curve) = 101
        /\ curve[Len(curve)].time = Ms(10000)
        /\ \A k \in 1..Len(curve) :
              /\ curve[k].time = (k - 1) * Ms(100)
              /\ curve[k].value =
                    IF curve_call.fn = "head"
                    THEN LET min_val == curve_call.range_values[1]
                             max_val == curve_call.range_values[2]
                         IN  (min_val + max_val) * SinOne
                                + (max_val - min_val)
                                    * Sin(Angle(Frequency(curve_call.axis), k - 1,
                                                Phase(curve_call.axis)))
                    ELSE 100 * SinOne
                            + curve_call.depth
                                * Sin(Angle(BreathFrequency(curve_call.speed), k - 1, 0))

\* a curve of the y axis, which has a phase, over a range that is not centred at 0
C13_Witness ==
    /\ cpc = "returned"
    /\ curve_call.fn = "head"
    /\ curve_call.axis = "y"
    /\ curve_call.range_values = <<-10, 5>>
    /\ Len(curve) > 100

\* C14: the lip-sync curve has 10 syllables starting at i * 0.5 s, i = 0..9;
\* each is four keyframes: 0.0 at the start, a value in [0.3, 0.7] 0.1 s later,
\* 0.2 at 0.2 s and 0.0 at 0.3 s; the curve has 40 keyframes and a syllable ends
\* before the next one starts.
C14_LipSyncSyllables ==
    (cpc = "returned" /\ curve_call.fn = "lip_sync") =>
        /\ Len(curve) = 40
        /\ \A i \in 0..9 :
              LET start_i == i * Ms(500)
              IN  /\ curve[4 * i + 1] = [time |-> start_i, value |-> 0]
                  /\ curve[4 * i + 2].time = start_i + Ms(100)
                  /\ 300 <= curve[4 * i + 2].value
                  /\ curve[4 * i + 2].value <= 700
                  /\ curve[4 * i + 3] = [time |-> start_i + Ms(200), value |-> 200]
                  /\ curve[4 * i + 4] = [time |-> start_i + Ms(300), value |-> 0]
        /\ \A i \in 1..9 : curve[4 * i].time < curve[4 * i + 1].time

\* a lip-sync curve that opens the mouth to 0.3 in one syllable and to 0.7 in
\* another
C14_Witness ==
    /\ cpc = "returned"
    /\ curve_call.fn = "lip_sync"
    /\ \E i, j \in 0..9 :
          /\ curve[4 * i + 2].value = 300
          /\ curve[4 * j + 2].value = 700

\* the list kfs is not empty, starts at time 0 and has strictly increasing times
WellFormedCurve(kfs) ==
    /\ Len(kfs) > 0
    /\ kfs[1].time = 0
    /\ \A k \in 1..(Len(kfs) - 1) : kfs[k].time < kfs[k + 1].time

\* C15: every curve returned (blink, lip-sync, head rotation, breathing) is
\* non-empty, has its first keyframe at time 0 and strictly increasing
\* keyframe times.
C15_CurvesWellFormed ==
    /\ bpc = "returned" => WellFormedCurve(keyframes)
    /\ cpc = "returned" => WellFormedCurve(curve)

\* a randomised blink curve of several cycles has been returned
C15_Witness ==
    /\ bpc = "returned"
    /\ random_blink
    /\ Len(keyframes) > CycleLen

----------------------------------------------------------------------------
(* The module random.  Its generator is one object of the process: it is    *)
(* seeded when the module is imported, from the entropy of the system, and *)
(* every draw of every caller advances it.  The model keeps its state as a *)
(* number below RngStates and draws from it as a congruential generator.   *)

\* number of states of the generator
RngStates == 16

\* the state of the generator after one draw
NextRng(s) == (5 * s + 3) % RngStates

\* the state of the generator after n draws
RECURSIVE Advance(_, _)
Advance(s, n) == IF n = 0 THEN s ELSE Advance(NextRng(s), n - 1)

\* random(), drawn in state s, on a grid of d equal steps
Draw(s, d) == s % (d + 1)

----------------------------------------------------------------------------
(* _create_eye_blink_curve and _create_sample_lip_sync as functions of the  *)
(* state of the generator they are called in.                              *)

\* an interval that is drawn whether random_blink is set or not
BlinkIntervalDrawn(random, s) ==
    Uniform(Ms(2000), Ms(6000), Draw(s, IntervalSteps), IntervalSteps)

\* interval = 4.0, or random.uniform(2.0, 6.0) if random_blink
BlinkInterval(random, s) ==
    IF random THEN Uniform(Ms(2000), Ms(6000), Draw(s, IntervalSteps), IntervalSteps)
    ELSE FixedInterval

\* wait_time = interval, or random.uniform(interval * 0.7, interval * 1.3) if
\* random_blink
WaitTime(random, i, s) ==
    IF random THEN Uniform((i * 7) \div 10, (i * 13) \div 10, Draw(s, GapSteps), GapSteps)
    ELSE i

\* the time the loop body has added to current_time before its k-th append
RECURSIVE BodyOffset(_)
BodyOffset(k) == IF k = 0 THEN 0 ELSE BodyOffset(k - 1) + Ms(BlinkBody[k].dt)

\* the twelve keyframes of the cycle that starts at current_time = cur
BlinkCycle(cur) ==
    [k \in 1..Len(BlinkBody) |->
        [time |-> cur + BodyOffset(k), value |-> BlinkBody[k].value]]

\* while current_time < total_time: ..., from current_time = cur with the
\* keyframes kfs and the generator in state s
RECURSIVE BlinkLoop(_, _, _, _, _)
BlinkLoop(random, i, cur, s, kfs) ==
    IF cur >= total_time THEN [keyframes |-> kfs, rng |-> s]
    ELSE BlinkLoop(random, i,
                   cur + BodyOffset(Len(BlinkBody)) + WaitTime(random, i, s),
                   IF random THEN NextRng(s) ELSE s,
                   kfs \o BlinkCycle(cur))

\* _create_eye_blink_curve(speed, random_blink) for a speed other than 0: the
\* keyframes returned and the state the generator is left in
CreateEyeBlinkCurve(random, s) ==
    BlinkLoop(random, BlinkInterval(random, s), 0,
              IF random THEN NextRng(s) ELSE s, <<>>)

\* the draws of the syllable_count calls random.uniform(0.3, 0.7) made from the
\* state s on
LipDraws(s) == [i \in 1..syllable_count |-> Draw(Advance(s, i - 1), OpenSteps)]

----------------------------------------------------------------------------
(* ParametersGenerator.generate, called twice with the same configuration  *)

\* the values eye.blink_speed is set to, in tenths; 0.3 / 0 raises
\* ZeroDivisionError
GenerateSpeeds10 == {0, 10}

ParametersConfigs ==
    [eye : [blink_speed : GenerateSpeeds10, random_blink : BOOLEAN],
     mouth : [auto_lip_sync : BOOLEAN],
     head : [rotation_range_x : {<<-30, 30>>}, rotation_range_y : {<<-30, 30>>},
             rotation_range_z : {<<-15, 15>>}],
     body : [breathing_enabled : BOOLEAN, breathing_depth : {50},
             breathing_speed : {10}]]

NoCurves ==
    /\ eye_open_curve = <<>>
    /\ lip_sync_data = <<>>
    /\ x_curve = <<>>
    /\ y_curve = <<>>
    /\ z_curve = <<>>
    /\ breathing_curve = <<>>

InitGenerate ==
    /\ LayersIdle
    /\ SegIdle
    /\ BlinkIdle
    /\ CreateIdle
    /\ RegIdle
    /\ PipeIdle
    /\ gpc = "start"
    /\ run = 1
    /\ parameters_config \in ParametersConfigs
    /\ project_path \in {"file", "dir", "empty_dir"}
    /\ rng \in 0..(RngStates - 1)
    /\ rng0 = rng
    /\ NoCurves
    /\ produced = {}
    /\ first_run = <<>>
    /\ result = "none"

\* a directory without .cmo3 file is logged and generate goes on
GenerateNoModelGoesOn ==
    /\ gpc = "start"
    /\ project_path = "empty_dir"
    /\ gpc' = "eye"
    /\ UNCHANGED <<run, parameters_config, rng, rng0, eye_open_curve, lip_sync_data,
                   x_curve, y_curve, z_curve, breathing_curve, project_path, produced,
                   first_run, result>>
    /\ UNCHANGED <<layerVars, segVars, blinkVars, createVars, regVars, pipeVars>>

\* os.path.isdir(project_path) and no .cmo3 file in it: return False
GenerateNoModel ==
    /\ gpc = "start"
    /\ project_path = "empty_dir"
    /\ result' = "False"
    /\ gpc' = "returned"
    /\ UNCHANGED <<run, parameters_config, rng, rng0, eye_open_curve, lip_sync_data,
                   x_curve, y_curve, z_curve, breathing_curve, project_path, produced,
                   first_run>>
    /\ UNCHANGED <<layerVars, segVars, blinkVars, createVars, regVars, pipeVars>>

\* model_path is the .cmo3 file found, or project_path itself
GenerateFindModel ==
    /\ gpc = "start"
    /\ project_path # "empty_dir"
    /\ gpc' = "eye"
    /\ UNCHANGED <<run, parameters_config, rng, rng0, eye_open_curve, lip_sync_data,
                   x_curve, y_curve, z_curve, breathing_curve, project_path, produced,
                   first_run,
                   result>>
    /\ UNCHANGED <<layerVars, segVars, blinkVars, createVars, regVars, pipeVars>>

\* self._generate_eye_blink_params(model_path)
GenerateEyeBlink ==
    /\ gpc = "eye"
    /\ parameters_config.eye.blink_speed # 0
    /\ LET made == CreateEyeBlinkCurve(parameters_config.eye.random_blink, rng)
       IN  /\ eye_open_curve' = made.keyframes
           /\ rng' = made.rng
    /\ gpc' = "mouth"
    /\ UNCHANGED <<run, parameters_config, rng0, lip_sync_data, x_curve, y_curve,
                   z_curve, breathing_curve, project_path, produced,
                   first_run, result>>
    /\ UNCHANGED <<layerVars, segVars, blinkVars, createVars, regVars, pipeVars>>

\* blink_duration = 0.3 / speed raises ZeroDivisionError in
\* _create_eye_blink_curve; "except Exception" of generate logs it: return False
GenerateEyeBlinkRaises ==
    /\ gpc = "eye"
    /\ parameters_config.eye.blink_speed = 0
    /\ result' = "False"
    /\ gpc' = "returned"
    /\ UNCHANGED <<run, parameters_config, rng, rng0, eye_open_curve, lip_sync_data,
                   x_curve, y_curve, z_curve, breathing_curve, project_path, produced,
                   first_run>>
    /\ UNCHANGED <<layerVars, segVars, blinkVars, createVars, regVars, pipeVars>>

\* self._generate_mouth_params(model_path)
GenerateMouth ==
    /\ gpc = "mouth"
    /\ IF parameters_config.mouth.auto_lip_sync
       THEN /\ lip_sync_data' = CreateSampleLipSync(LipDraws(rng))
            /\ rng' = Advance(rng, syllable_count)
       ELSE UNCHANGED <<lip_sync_data, rng>>
    /\ gpc' = "head"
    /\ UNCHANGED <<run, parameters_config, rng0, eye_open_curve, x_curve, y_curve,
                   z_curve, breathing_curve, project_path, produced,
                   first_run, result>>
    /\ UNCHANGED <<layerVars, segVars, blinkVars, createVars, regVars, pipeVars>>

\* the head rotation step followed at once by the combined step
GenerateHeadRotationThenCombined ==
    /\ gpc = "head"
    /\ x_curve' = CreateHeadRotationCurve("x", parameters_config.head.rotation_range_x)
    /\ y_curve' = CreateHeadRotationCurve("y", parameters_config.head.rotation_range_y)
    /\ z_curve' = CreateHeadRotationCurve("z", parameters_config.head.rotation_range_z)
    /\ gpc' = "combined"
    /\ UNCHANGED <<run, parameters_config, rng, rng0, eye_open_curve, lip_sync_data,
                   breathing_curve, project_path, produced, first_run, result>>
    /\ UNCHANGED <<layerVars, segVars, blinkVars, createVars, regVars, pipeVars>>

\* self._generate_head_rotation_params(model_path)
GenerateHeadRotation ==
    /\ gpc = "head"
    /\ x_curve' = CreateHeadRotationCurve("x", parameters_config.head.rotation_range_x)
    /\ y_curve' = CreateHeadRotationCurve("y", parameters_config.head.rotation_range_y)
    /\ z_curve' = CreateHeadRotationCurve("z", parameters_config.head.rotation_range_z)
    /\ gpc' = "body"
    /\ UNCHANGED <<run, parameters_config, rng, rng0, eye_open_curve, lip_sync_data,
                   breathing_curve, project_path, produced,
                   first_run, result>>
    /\ UNCHANGED <<layerVars, segVars, blinkVars, createVars, regVars, pipeVars>>

\* self._generate_body_params(model_path)
GenerateBody ==
    /\ gpc = "body"
    /\ breathing_curve' =
          IF parameters_config.body.breathing_enabled
          THEN CreateBreathingCurve(parameters_config.body.breathing_depth,
                                    parameters_config.body.breathing_speed)
          ELSE breathing_curve
    /\ gpc' = "physics"
    /\ UNCHANGED <<run, parameters_config, rng, rng0, eye_open_curve, lip_sync_data,
                   x_curve, y_curve, z_curve, project_path, produced,
                   first_run, result>>
    /\ UNCHANGED <<layerVars, segVars, blinkVars, createVars, regVars, pipeVars>>

\* self._generate_physics_params(model_path): reads the configuration and logs
GeneratePhysics ==
    /\ gpc = "physics"
    /\ gpc' = "combined"
    /\ UNCHANGED <<run, parameters_config, rng, rng0, eye_open_curve, lip_sync_data,
                   x_curve, y_curve, z_curve, breathing_curve, project_path, produced,
                   first_run,
                   result>>
    /\ UNCHANGED <<layerVars, segVars, blinkVars, createVars, regVars, pipeVars>>

\* self._generate_combined_params(model_path), which logs; return True
GenerateCombined ==
    /\ gpc = "combined"
    /\ result' = "True"
    /\ gpc' = "returned"
    /\ UNCHANGED <<run, parameters_config, rng, rng0, eye_open_curve, lip_sync_data,
                   x_curve, y_curve, z_curve, breathing_curve, project_path, produced,
                   first_run>>
    /\ UNCHANGED <<layerVars, segVars, blinkVars, createVars, regVars, pipeVars>>

\* generate is called again with the same configuration and project: by the
\* same process, whose generator is where the first call left it, or by a new
\* process, whose generator is seeded afresh
GenerateAgain ==
    /\ gpc = "returned"
    /\ run = 1
    /\ first_run' = [rng0 |-> rng0, eye_open_curve |-> eye_open_curve,
                     lip_sync_data |-> lip_sync_data, result |-> result]
    /\ run' = 2
    /\ rng' \in {rng} \cup (0..(RngStates - 1))
    /\ rng0' = rng'
    /\ eye_open_curve' = <<>>
    /\ lip_sync_data' = <<>>
    /\ x_curve' = <<>>
    /\ y_curve' = <<>>
    /\ z_curve' = <<>>
    /\ breathing_curve' = <<>>
    /\ result' = "none"
    /\ gpc' = "start"
    /\ UNCHANGED <<parameters_config, project_path, produced>>
    /\ UNCHANGED <<layerVars, segVars, blinkVars, createVars, regVars, pipeVars>>

NextGenerate ==
    \/ GenerateNoModel
    \/ GenerateFindModel
    \/ GenerateEyeBlink
    \/ GenerateEyeBlinkRaises
    \/ GenerateMouth
    \/ GenerateHeadRotation
    \/ GenerateBody
    \/ GeneratePhysics
    \/ GenerateCombined
    \/ GenerateAgain

SpecGenerate == InitGenerate /\ [][NextGenerate]_vars

----------------------------------------------------------------------------
(* Properties of generate (specification SpecGenerate)                     *)

\* C16: with random_blink false, two syntheses of the blink curve with the same
\* speed and horizon give the same keyframes, times and values, whatever
\* curves were synthesized between the two.
C16_PeriodicBlinkReproducible ==
    (/\ run = 2
     /\ ~parameters_config.eye.random_blink
     /\ eye_open_curve # <<>>) =>
        eye_open_curve = first_run.eye_open_curve

\* the periodic blink curve is made a second time, after a lip-sync curve was
\* drawn in between, with the generator in another state than the first time
C16_Witness ==
    /\ run = 2
    /\ ~parameters_config.eye.random_blink
    /\ eye_open_curve # <<>>
    /\ first_run.lip_sync_data # <<>>
    /\ rng0 # first_run.rng0

\* C17: with random_blink true, two runs of generate given the same seed (the
\* code takes none: the same configuration and project) produce the same blink
\* and the same lip-sync keyframes.
C17_SeededRunsAgree ==
    (/\ run = 2
     /\ gpc = "returned"
     /\ result = "True"
     /\ parameters_config.eye.random_blink) =>
        /\ eye_open_curve = first_run.eye_open_curve
        /\ lip_sync_data = first_run.lip_sync_data

\* C18: the keyframes of the lip-sync curve are the same whether or not a
\* randomised blink curve is synthesized before it: they are those the
\* lip-sync synthesis makes from the random source the call of generate began
\* with.
C18_LipSyncIndependentOfBlink ==
    lip_sync_data # <<>> =>
        lip_sync_data = CreateSampleLipSync(LipDraws(rng0))

\* C19: when the synthesis of the blink curve raises, the other curve families
\* are still synthesized: the three head rotation curves, the lip-sync curve
\* if auto_lip_sync is set and the breathing curve if breathing is enabled.
C19_FailureScopedToOneFamily ==
    (/\ gpc = "returned"
     /\ project_path # "empty_dir"
     /\ parameters_config.eye.blink_speed = 0) =>
        /\ x_curve # <<>>
        /\ y_curve # <<>>
        /\ z_curve # <<>>
        /\ parameters_config.mouth.auto_lip_sync => lip_sync_data # <<>>
        /\ parameters_config.body.breathing_enabled => breathing_curve # <<>>

\* the blink curves generate makes are those of _create_eye_blink_curve: the
\* periodic one has the three cycles that start at 0 s, 4.26 s and 8.52 s
GenerateBlinkAgrees ==
    (eye_open_curve # <<>> /\ ~parameters_config.eye.random_blink) =>
        /\ Len(eye_open_curve) = 3 * CycleLen
        /\ \A k \in 1..Len(eye_open_curve) :
              eye_open_curve[k].value = ClaimedValues[((k - 1) % CycleLen) + 1]
        /\ eye_open_curve[CycleLen + 1].time = Ms(4260)
        /\ eye_open_curve[3 * CycleLen].time = Ms(8780)

----------------------------------------------------------------------------
(* CubismAutomation._setup_parameters and _create_parameter                *)

\* _create_parameter(name, min_value, max_value) when no call of pyautogui
\* raises: the name and the two values are typed as given and confirmed with
\* enter, which adds the parameter to those ps of the editor
CreateParameter(ps, name, min_value, max_value) ==
    Append(ps, [name |-> name, min |-> min_value, max |-> max_value])

\* the arguments _create_parameter is called with on its own
ParameterCalls == [name : {"Custom"}, min_value : -1..1, max_value : -1..1]

InitParameters ==
    /\ LayersIdle
    /\ SegIdle
    /\ BlinkIdle
    /\ CreateIdle
    /\ GenIdle
    /\ PipeIdle
    /\ reg_idx = 0
    /\ created = <<>>
    /\ reg_result = "none"
    /\ \/ /\ rpc = "setup"
          /\ reg_call = [name |-> "", min_value |-> 0, max_value |-> 0]
       \/ /\ rpc = "call"
          /\ reg_call \in ParameterCalls

\* the next self._create_parameter(...) of _setup_parameters; its result is
\* not looked at
SetupCreateParameter ==
    /\ rpc = "setup"
    /\ reg_idx < Len(RigParameters)
    /\ created' = CreateParameter(created, RigParameters[reg_idx + 1].name,
                                  RigParameters[reg_idx + 1].min,
                                  RigParameters[reg_idx + 1].max)
    /\ reg_idx' = reg_idx + 1
    /\ UNCHANGED <<rpc, reg_call, reg_result>>
    /\ UNCHANGED <<layerVars, segVars, blinkVars, createVars, genVars, pipeVars>>

\* a call of pyautogui raises within that _create_parameter, which logs the
\* error and returns False before enter is pressed; _setup_parameters goes on
SetupCreateParameterRaises ==
    /\ rpc = "setup"
    /\ reg_idx < Len(RigParameters)
    /\ reg_idx' = reg_idx + 1
    /\ UNCHANGED <<rpc, reg_call, created, reg_result>>
    /\ UNCHANGED <<layerVars, segVars, blinkVars, createVars, genVars, pipeVars>>

\* return True of _setup_parameters
SetupReturn ==
    /\ rpc = "setup"
    /\ reg_idx = Len(RigParameters)
    /\ reg_result' = "True"
    /\ rpc' = "returned"
    /\ UNCHANGED <<reg_call, reg_idx, created>>
    /\ UNCHANGED <<layerVars, segVars, blinkVars, createVars, genVars, pipeVars>>

\* _create_parameter called on its own: return True
CallCreateParameter ==
    /\ rpc = "call"
    /\ created' = CreateParameter(created, reg_call.name, reg_call.min_value,
                                  reg_call.max_value)
    /\ reg_result' = "True"
    /\ rpc' = "returned"
    /\ UNCHANGED <<reg_call, reg_idx>>
    /\ UNCHANGED <<layerVars, segVars, blinkVars, createVars, genVars, pipeVars>>

\* _create_parameter called on its own, a call of pyautogui raises: return False
CallCreateParameterRaises ==
    /\ rpc = "call"
    /\ reg_result' = "False"
    /\ rpc' = "returned"
    /\ UNCHANGED <<reg_call, reg_idx, created>>
    /\ UNCHANGED <<layerVars, segVars, blinkVars, createVars, genVars, pipeVars>>

NextParameters ==
    \/ SetupCreateParameter
    \/ SetupCreateParameterRaises
    \/ SetupReturn
    \/ CallCreateParameter
    \/ CallCreateParameterRaises

SpecParameters == InitParameters /\ [][NextParameters]_vars

\* C20: creating a rig parameter with min >= max fails with InvalidRange and
\* creates no parameter, so that every parameter created has min < max.
C20_InvalidRangeRejected ==
    /\ (rpc = "returned" /\ reg_call.name # ""
            /\ reg_call.min_value >= reg_call.max_value) =>
          (reg_result = "InvalidRange" /\ created = <<>>)
    /\ \A i \in 1..Len(created) : created[i].min < created[i].max

\* the parameters _setup_parameters creates all have min < max
SetupRangesValid ==
    rpc = "setup" \/ reg_call.name = "" =>
        \A i \in 1..Len(created) : created[i].min < created[i].max

----------------------------------------------------------------------------
(* Mask selection (specification SpecSegment) and the place of the         *)
(* background (specification Spec)                                         *)

\* C24: when the segmentation of a part has several candidate masks, the layer
\* is built from the mask of largest area, and among the masks of that area
\* from the one that comes first in the list of candidates.
C24_LargestMaskFirstOfTies ==
    (spc \in {"refine", "returned"} /\ masks # <<>>) =>
        \E i \in 1..Len(masks) :
            /\ selected_mask = masks[i]
            /\ \A j \in 1..Len(masks) : Area(masks[j]) <= Area(masks[i])
            /\ \A j \in 1..(i - 1) : Area(masks[j]) < Area(masks[i])
            /\ ~layers_config.refine_edges =>
                  segmented = Some(ApplyMask(size, masks[i]))

\* two candidates of the same area and different pixels: the first one is taken
C24_Witness ==
    /\ spc = "returned"
    /\ Len(masks) > 1
    /\ Area(masks[1]) = Area(masks[2])
    /\ Area(masks[1]) > 0
    /\ masks[1] # masks[2]
    /\ selected_mask = masks[1]

\* C26: with fill_background, the background is the first layer of the stack
\* whatever parts were segmented, although it is the last key of the dict of
\* layers.
C26_BackgroundRearmost ==
    (psd_saved /\ layers_config.fill_background) =>
        /\ psd_layers[1] = "background"
        /\ Keys(layers)[Len(layers)] = "background"
        /\ \A i \in 2..Len(psd_layers) : psd_layers[i] # "background"

\* a stack of the background and at least two parts
C26_Witness ==
    /\ psd_saved
    /\ layers_config.fill_background
    /\ Len(psd_layers) > 2
    /\ psd_layers[1] = "background"

----------------------------------------------------------------------------
(* Order, output and result of generate (specification SpecGenerate)       *)

\* every curve the configuration asks for has been synthesized
AllCurvesSynthesized ==
    /\ eye_open_curve # <<>>
    /\ x_curve # <<>>
    /\ y_curve # <<>>
    /\ z_curve # <<>>
    /\ parameters_config.mouth.auto_lip_sync => lip_sync_data # <<>>
    /\ parameters_config.body.breathing_enabled => breathing_curve # <<>>

\* C22: within one run of generate, the combined-parameters step (the
\* expressions) starts only after the blink, mouth, head rotation and body
\* syntheses have finished.
C22_CombinedAfterCurves ==
    (gpc = "combined" \/ (gpc = "returned" /\ result = "True")) =>
        AllCurvesSynthesized

\* the combined step is about to start, every kind of curve having been asked for
C22_Witness ==
    /\ gpc = "combined"
    /\ parameters_config.mouth.auto_lip_sync
    /\ parameters_config.body.breathing_enabled
    /\ parameters_config.eye.random_blink

\* the keyframes kfs are found in what generate left behind it
Produced(kfs) == \E e \in produced : e.keyframes = kfs

\* C23: after a successful generate, the curves it synthesized (blink,
\* lip-sync, head rotation, breathing) are part of what it produced, where the
\* motion writer finds them by parameter id.
C23_CurvesInOutput ==
    (gpc = "returned" /\ result = "True") =>
        /\ Produced(eye_open_curve)
        /\ Produced(x_curve)
        /\ Produced(y_curve)
        /\ Produced(z_curve)
        /\ parameters_config.mouth.auto_lip_sync => Produced(lip_sync_data)
        /\ parameters_config.body.breathing_enabled => Produced(breathing_curve)

\* C25: generate returns False and synthesizes no curve when project_path is a
\* directory without .cmo3 file; whenever it returns it returns True or False,
\* the exception of a step being answered by False.
C25_NoModelReturnsFalse ==
    /\ gpc = "returned" => result \in {"True", "False"}
    /\ project_path = "empty_dir" =>
          /\ NoCurves
          /\ gpc \in {"start", "returned"}
          /\ gpc = "returned" => result = "False"
    /\ (gpc = "returned" /\ parameters_config.eye.blink_speed = 0) => result = "False"

\* generate has returned for a directory without .cmo3 file, the configuration
\* asking for every curve
C25_Witness ==
    /\ gpc = "returned"
    /\ project_path = "empty_dir"
    /\ result = "False"
    /\ parameters_config.eye.blink_speed # 0
    /\ parameters_config.mouth.auto_lip_sync

----------------------------------------------------------------------------
(* CubismAutomation._create_expressions and _create_expression             *)

\* none of the machines of the layers, the curves and the parameters runs
CoreIdle == LayersIdle /\ SegIdle /\ BlinkIdle /\ CreateIdle /\ GenIdle /\ RegIdle

\* longest list preset_expressions
MaxExpressions == 2

\* the names preset_expressions is made of: the four presets and another name
ExpressionNames == {"smile", "sad", "angry", "surprised", "wink"}

InitExpressions ==
    /\ CoreIdle
    /\ AutoIdle
    /\ MainIdle
    /\ GuiIdle
    /\ xpc = "loop"
    /\ preset_expressions \in SeqsUpTo(ExpressionNames, MaxExpressions)
    /\ x_idx = 0
    /\ expressions = <<>>
    /\ x_result = <<>>

\* one turn of "for expression in expressions": _create_expression(name), whose
\* four branches are "pass" and which returns True for every name; nothing is
\* set in the editor
CreateExpression ==
    /\ xpc = "loop"
    /\ x_idx < Len(preset_expressions)
    /\ x_idx' = x_idx + 1
    /\ x_result' = Append(x_result, "True")
    /\ UNCHANGED <<xpc, preset_expressions, expressions>>
    /\ UNCHANGED <<coreVars, autoVars, mainVars, guiVars>>

\* return True of _create_expressions
CreateExpressionsReturn ==
    /\ xpc = "loop"
    /\ x_idx = Len(preset_expressions)
    /\ xpc' = "returned"
    /\ UNCHANGED <<preset_expressions, x_idx, expressions, x_result>>
    /\ UNCHANGED <<coreVars, autoVars, mainVars, guiVars>>

NextExpressions ==
    \/ CreateExpression
    \/ CreateExpressionsReturn

SpecExpressions == InitExpressions /\ [][NextExpressions]_vars

\* the names of the presets
PresetNames == {"smile", "sad", "angry", "surprised"}

\* C21: composing a preset (smile, sad, angry, surprised) yields an expression
\* of that name, a fixed mapping from parameter ids to single values, all of
\* whose ids are parameters of the rig.
C21_PresetsComposed ==
    xpc = "returned" =>
        \A i \in 1..Len(preset_expressions) :
            preset_expressions[i] \in PresetNames =>
                \E k \in 1..Len(expressions) :
                    /\ expressions[k].name = preset_expressions[i]
                    /\ DOMAIN expressions[k].values # {}
                    /\ \A id \in DOMAIN expressions[k].values :
                          \E q \in 1..Len(RigParameters) : RigParameters[q].name = id

----------------------------------------------------------------------------
(* CubismAutomation.automate                                               *)

\* longest list automated_steps
MaxSteps == 3

\* the step names automate tests, and a name it does not know
StepNames ==
    {"import_psd", "setup_parameters", "setup_deformers", "setup_physics",
     "create_expressions", "export_model"}

AutomationMethods == {"ui_automation", "sdk_integration", "manual", "other"}

CubismConfigs ==
    [automation_method : AutomationMethods,
     automated_steps : DistinctSeqs(StepNames, MaxSteps),
     auto_parameters : BOOLEAN,
     physics_enabled : BOOLEAN]

\* the if/elif chain of the loop over the steps: whether the step's method is
\* called
StepRuns(cfg, st) ==
    \/ st = "import_psd"
    \/ st = "setup_parameters" /\ cfg.auto_parameters
    \/ st = "setup_deformers"
    \/ st = "setup_physics" /\ cfg.physics_enabled
    \/ st = "create_expressions"

\* the steps whose method can return False: _import_psd (file missing or the
\* keystrokes raise) and _create_expressions (key missing in the
\* configuration); _setup_parameters, _setup_deformers and _setup_physics
\* ignore what their calls return and call nothing that raises
StepCanFail(st) == st \in {"import_psd", "create_expressions"}

InitAutomate ==
    /\ CoreIdle
    /\ ExprIdle
    /\ MainIdle
    /\ GuiIdle
    /\ apc = "entry"
    /\ cubism_config \in CubismConfigs
    /\ psd_exists \in BOOLEAN
    /\ a_idx = 0
    /\ cubism_running \in BOOLEAN
    /\ started = FALSE
    /\ performed = <<>>
    /\ a_result = "none"

\* character_layers.psd is not in layers_dir: return ""
AutomateNoPsd ==
    /\ apc = "entry"
    /\ ~psd_exists
    /\ apc' = "returned"
    /\ a_result' = ""
    /\ UNCHANGED <<cubism_config, psd_exists, a_idx, cubism_running, started, performed>>
    /\ UNCHANGED <<coreVars, exprVars, mainVars, guiVars>>

\* the "manual" method writes README.txt and returns output_subdir
AutomateManual ==
    /\ apc = "entry"
    /\ psd_exists
    /\ cubism_config.automation_method = "manual"
    /\ apc' = "returned"
    /\ a_result' = "output_subdir"
    /\ UNCHANGED <<cubism_config, psd_exists, a_idx, cubism_running, started, performed>>
    /\ UNCHANGED <<coreVars, exprVars, mainVars, guiVars>>

\* "sdk_integration" and every other method: return ""
AutomateUnsupported ==
    /\ apc = "entry"
    /\ psd_exists
    /\ cubism_config.automation_method \notin {"ui_automation", "manual"}
    /\ apc' = "returned"
    /\ a_result' = ""
    /\ UNCHANGED <<cubism_config, psd_exists, a_idx, cubism_running, started, performed>>
    /\ UNCHANGED <<coreVars, exprVars, mainVars, guiVars>>

\* _start_cubism returns True: Cubism is running already, or it was launched;
\* after the wait of 30 seconds True is returned whether it runs or not
StartCubism ==
    /\ apc = "entry"
    /\ psd_exists
    /\ cubism_config.automation_method = "ui_automation"
    /\ cubism_running' \in (IF cubism_running THEN {TRUE} ELSE BOOLEAN)
    /\ started' = TRUE
    /\ performed' = Append(performed, [step |-> "start", ok |-> TRUE])
    /\ apc' = "steps"
    /\ UNCHANGED <<cubism_config, psd_exists, a_idx, a_result>>
    /\ UNCHANGED <<coreVars, exprVars, mainVars, guiVars>>

\* _start_cubism returns False (system without a launcher, or the launch
\* raises): return ""
StartCubismFails ==
    /\ apc = "entry"
    /\ psd_exists
    /\ cubism_config.automation_method = "ui_automation"
    /\ ~cubism_running
    /\ performed' = Append(performed, [step |-> "start", ok |-> FALSE])
    /\ apc' = "returned"
    /\ a_result' = ""
    /\ UNCHANGED <<cubism_config, psd_exists, a_idx, cubism_running, started>>
    /\ UNCHANGED <<coreVars, exprVars, mainVars, guiVars>>

\* a failing step does not end the loop
AutomateStepFailsGoesOn ==
    /\ apc = "steps"
    /\ a_idx < Len(cubism_config.automated_steps)
    /\ StepRuns(cubism_config, cubism_config.automated_steps[a_idx + 1])
    /\ StepCanFail(cubism_config.automated_steps[a_idx + 1])
    /\ performed' = Append(performed,
                           [step |-> cubism_config.automated_steps[a_idx + 1], ok |-> FALSE])
    /\ a_idx' = a_idx + 1
    /\ UNCHANGED <<apc, cubism_config, psd_exists, cubism_running, started, a_result>>
    /\ UNCHANGED <<coreVars, exprVars, mainVars, guiVars>>

\* one turn of "for step in steps" in which the step's method returns True, or
\* in which no branch of the chain is taken
AutomateStep ==
    /\ apc = "steps"
    /\ a_idx < Len(cubism_config.automated_steps)
    /\ performed' =
          IF StepRuns(cubism_config, cubism_config.automated_steps[a_idx + 1])
          THEN Append(performed,
                      [step |-> cubism_config.automated_steps[a_idx + 1], ok |-> TRUE])
          ELSE performed
    /\ a_idx' = a_idx + 1
    /\ UNCHANGED <<apc, cubism_config, psd_exists, cubism_running, started, a_result>>
    /\ UNCHANGED <<coreVars, exprVars, mainVars, guiVars>>

\* one turn in which the step's method returns False: return ""
AutomateStepFails ==
    /\ apc = "steps"
    /\ a_idx < Len(cubism_config.automated_steps)
    /\ StepRuns(cubism_config, cubism_config.automated_steps[a_idx + 1])
    /\ StepCanFail(cubism_config.automated_steps[a_idx + 1])
    /\ performed' = Append(performed,
                           [step |-> cubism_config.automated_steps[a_idx + 1], ok |-> FALSE])
    /\ apc' = "returned"
    /\ a_result' = ""
    /\ UNCHANGED <<cubism_config, psd_exists, a_idx, cubism_running, started>>
    /\ UNCHANGED <<coreVars, exprVars, mainVars, guiVars>>

\* after the loop: _save_project returns True
SaveProject ==
    /\ apc = "steps"
    /\ a_idx = Len(cubism_config.automated_steps)
    /\ performed' = Append(performed, [step |-> "save", ok |-> TRUE])
    /\ apc' = "close"
    /\ UNCHANGED <<cubism_config, psd_exists, a_idx, cubism_running, started, a_result>>
    /\ UNCHANGED <<coreVars, exprVars, mainVars, guiVars>>

\* _save_project returns False (the file is not there after the keystrokes, or
\* they raise): return ""
SaveProjectFails ==
    /\ apc = "steps"
    /\ a_idx = Len(cubism_config.automated_steps)
    /\ performed' = Append(performed, [step |-> "save", ok |-> FALSE])
    /\ apc' = "returned"
    /\ a_result' = ""
    /\ UNCHANGED <<cubism_config, psd_exists, a_idx, cubism_running, started>>
    /\ UNCHANGED <<coreVars, exprVars, mainVars, guiVars>>

\* self._close_cubism(), whose result is not looked at, then return
\* output_subdir; Alt+F4 closes Cubism or not, and the forced end exists on
\* Windows and macOS only
CloseCubism ==
    /\ apc = "close"
    /\ cubism_running' \in {FALSE, cubism_running}
    /\ performed' = Append(performed, [step |-> "close", ok |-> TRUE])
    /\ apc' = "returned"
    /\ a_result' = "output_subdir"
    /\ UNCHANGED <<cubism_config, psd_exists, a_idx, started>>
    /\ UNCHANGED <<coreVars, exprVars, mainVars, guiVars>>

NextAutomate ==
    \/ AutomateNoPsd
    \/ AutomateManual
    \/ AutomateUnsupported
    \/ StartCubism
    \/ StartCubismFails
    \/ AutomateStep
    \/ AutomateStepFails
    \/ SaveProject
    \/ SaveProjectFails
    \/ CloseCubism

SpecAutomate == InitAutomate /\ [][NextAutomate]_vars

\* the steps of the list that the configuration has automate perform, in the
\* order of the list
ConfiguredSteps(cfg) ==
    LET Runs(st) == StepRuns(cfg, st)
    IN  SelectSeq(cfg.automated_steps, Runs)

\* the names of the steps performed after the start, in order
PerformedSteps ==
    LET IsStep(e) == e.step \in StepNames
    IN  [i \in 1..Len(SelectSeq(performed, IsStep)) |-> SelectSeq(performed, IsStep)[i].step]

\* C28: with ui_automation the project is saved only after every step the
\* configuration has automate perform has succeeded, in the order of the
\* list; when the start, a step or the save fails, automate returns "" and
\* nothing is performed after the failure.
C28_SaveAfterAllSteps ==
    /\ \A i \in 1..Len(performed) :
          performed[i].step = "save" =>
              /\ PerformedSteps = ConfiguredSteps(cubism_config)
              /\ \A j \in 1..(i - 1) : performed[j].ok
              /\ performed[1].step = "start"
    /\ \A i \in 1..Len(PerformedSteps) :
          i <= Len(ConfiguredSteps(cubism_config))
          /\ PerformedSteps[i] = ConfiguredSteps(cubism_config)[i]
    /\ \A i \in 1..Len(performed) :
          ~performed[i].ok =>
              /\ i = Len(performed)
              /\ apc = "returned"
              /\ a_result = ""

\* a run of three listed steps, one of them not performed, that saved the project
C28_Witness ==
    /\ apc = "returned"
    /\ a_result = "output_subdir"
    /\ Len(cubism_config.automated_steps) = 3
    /\ Len(ConfiguredSteps(cubism_config)) = 2
    /\ \E i \in 1..Len(performed) : performed[i].step = "save" /\ performed[i].ok

\* C29: whenever automate returns after Cubism was started, Cubism was closed
\* before the return, also when a step or the save failed.
C29_ClosedBeforeReturn ==
    (apc = "returned" /\ started) =>
        \E i \in 1..Len(performed) : performed[i].step = "close"

----------------------------------------------------------------------------
(* main: the five stages                                                   *)

\* the stages in the order main.py lists them; mpc is the stage main is at
StageOrder == <<"character", "layers", "cubism", "parameters", "export">>

\* Python's truth test of a path: None and the empty string are false
Truthy(x) == x \notin {"None", ""}

\* the command lines: five skip flags, --character-image and --layer-dir
MainArgs ==
    [skip_character : BOOLEAN, skip_layer : BOOLEAN, skip_cubism : BOOLEAN,
     skip_parameters : BOOLEAN, skip_export : BOOLEAN,
     character_image : {"None", "image.png"},
     layer_dir : {"None", "layers_old"}]

InitMain ==
    /\ CoreIdle
    /\ ExprIdle
    /\ AutoIdle
    /\ GuiIdle
    /\ mpc = "character"
    /\ args \in MainArgs
    /\ character_path = "None"
    /\ layers_dir = "None"
    /\ cubism_project = "None"
    /\ stages = <<>>

\* "if not args.skip_layer and character_path"
LayerStageRuns(a, character) == ~a.skip_layer /\ Truthy(character)

\* "if not args.skip_cubism and layers_dir"
CubismStageRuns(a, dir) == ~a.skip_cubism /\ Truthy(dir)

\* the parameters stage does not look at the project
ParametersStageRunsUnguarded(a, project) == ~a.skip_parameters

\* "if not args.skip_parameters and cubism_project"
ParametersStageRuns(a, project) == ~a.skip_parameters /\ Truthy(project)

\* "if not args.skip_export and cubism_project"
ExportStageRuns(a, project) == ~a.skip_export /\ Truthy(project)

\* 1. the character stage: the given image, or the path generate() returns
MainCharacter ==
    /\ mpc = "character"
    /\ IF ~args.skip_character
       THEN /\ stages' = Append(stages, "character")
            /\ character_path' = IF Truthy(args.character_image)
                                 THEN args.character_image
                                 ELSE "character.png"
       ELSE /\ stages' = stages
            /\ character_path' = IF Truthy(args.character_image)
                                 THEN args.character_image
                                 ELSE "None"
    /\ mpc' = "layers"
    /\ UNCHANGED <<args, layers_dir, cubism_project>>
    /\ UNCHANGED <<coreVars, exprVars, autoVars, guiVars>>

\* 2. the layers stage: the given directory, or the one separate() returns
MainLayers ==
    /\ mpc = "layers"
    /\ IF LayerStageRuns(args, character_path)
       THEN /\ stages' = Append(stages, "layers")
            /\ layers_dir' = IF Truthy(args.layer_dir)
                             THEN args.layer_dir
                             ELSE "layers_new"
       ELSE /\ stages' = stages
            /\ layers_dir' = IF Truthy(args.layer_dir)
                             THEN args.layer_dir
                             ELSE "None"
    /\ mpc' = "cubism"
    /\ UNCHANGED <<args, character_path, cubism_project>>
    /\ UNCHANGED <<coreVars, exprVars, autoVars, guiVars>>

\* 3. the Cubism stage: automate returns "" or the directory of the project
MainCubism ==
    /\ mpc = "cubism"
    /\ IF CubismStageRuns(args, layers_dir)
       THEN /\ stages' = Append(stages, "cubism")
            /\ cubism_project' \in {"", "model"}
       ELSE /\ stages' = stages
            /\ cubism_project' = "None"
    /\ mpc' = "parameters"
    /\ UNCHANGED <<args, character_path, layers_dir>>
    /\ UNCHANGED <<coreVars, exprVars, autoVars, guiVars>>

\* 4. the parameters stage: what generate returns is not looked at
MainParameters ==
    /\ mpc = "parameters"
    /\ stages' = IF ParametersStageRuns(args, cubism_project)
                 THEN Append(stages, "parameters")
                 ELSE stages
    /\ mpc' = "export"
    /\ UNCHANGED <<args, character_path, layers_dir, cubism_project>>
    /\ UNCHANGED <<coreVars, exprVars, autoVars, guiVars>>

\* 5. the export stage
MainExport ==
    /\ mpc = "export"
    /\ stages' = IF ExportStageRuns(args, cubism_project)
                 THEN Append(stages, "export")
                 ELSE stages
    /\ mpc' = "done"
    /\ UNCHANGED <<args, character_path, layers_dir, cubism_project>>
    /\ UNCHANGED <<coreVars, exprVars, autoVars, guiVars>>

\* the call of a stage raises (generate, separate and automate have no handler
\* of their own, and main has none): main ends there
MainRaises ==
    /\ \/ mpc = "character" /\ ~args.skip_character /\ ~Truthy(args.character_image)
       \/ mpc = "layers" /\ LayerStageRuns(args, character_path) /\ ~Truthy(args.layer_dir)
       \/ mpc = "cubism" /\ CubismStageRuns(args, layers_dir)
    /\ stages' = Append(stages, mpc)
    /\ mpc' = "raised"
    /\ UNCHANGED <<args, character_path, layers_dir, cubism_project>>
    /\ UNCHANGED <<coreVars, exprVars, autoVars, guiVars>>

NextMain ==
    \/ MainCharacter
    \/ MainLayers
    \/ MainCubism
    \/ MainParameters
    \/ MainExport
    \/ MainRaises

SpecMain == InitMain /\ [][NextMain]_vars

\* the place of a stage in StageOrder
StageRank(name) == CHOOSE k \in 1..Len(StageOrder) : StageOrder[k] = name

\* C27: the stages of main run in the order character, layers, Cubism,
\* parameters, export; a stage runs only when it is not skipped and what it
\* works on exists: parameters and export only after a Cubism stage that
\* returned a project path that is not empty, Cubism only with a layers
\* directory, layers only with a character image.
C27_StagesInOrderWithArtifacts ==
    /\ \A i, j \in 1..Len(stages) :
          i < j => StageRank(stages[i]) < StageRank(stages[j])
    /\ "character" \in Range(stages) => ~args.skip_character
    /\ "layers" \in Range(stages) =>
          ~args.skip_layer /\ Truthy(character_path)
    /\ "cubism" \in Range(stages) =>
          ~args.skip_cubism /\ Truthy(layers_dir)
    /\ "parameters" \in Range(stages) =>
          /\ ~args.skip_parameters
          /\ "cubism" \in Range(stages)
          /\ Truthy(cubism_project)
    /\ "export" \in Range(stages) =>
          /\ ~args.skip_export
          /\ "cubism" \in Range(stages)
          /\ Truthy(cubism_project)

\* a run of main in which all five stages ran
C27_Witness == mpc = "done" /\ stages = StageOrder

----------------------------------------------------------------------------
(* Live2DGeneratorGUI.run_full_process, from the layer separation on       *)

\* A directory layers_<timestamp> is modelled by its timestamp, 0 is no
\* directory.  found_dirs is the set of layers_* directories in the GUI's
\* self.output_dir (config['io']['output_dir']).  LayerSeparator makes its
\* directory in config['export']['output_dir']/layers; separation.shared
\* tells whether the configuration makes the two the same directory.

\* number of layers_* directories earlier runs can have left
MaxLeftover == 3

\* the directory this run's separation makes
ThisRunDir == MaxLeftover + 1

\* the greatest of a set of timestamps, as layer_dirs.sort(reverse=True)[0]
Latest(S) == CHOOSE d \in S : \A e \in S : e <= d

\* state when the character image is at hand (step 1 has set character_path)
InitGui ==
    /\ CoreIdle
    /\ ExprIdle
    /\ AutoIdle
    /\ MainIdle
    /\ upc = "separate"
    /\ found_dirs \in SUBSET (1..MaxLeftover)
    /\ separation \in [outcome : {"none"}, dir : {0}, shared : BOOLEAN]
    /\ gui_layers_dir = 0
    /\ called = <<>>
    /\ gui_result = "none"

\* separate_layers: separator.separate returns its directory
GuiSeparateLayers ==
    /\ upc = "separate"
    /\ separation' = [separation EXCEPT !.outcome = "ok", !.dir = ThisRunDir]
    /\ found_dirs' = IF separation.shared THEN found_dirs \cup {ThisRunDir} ELSE found_dirs
    /\ upc' = "list"
    /\ UNCHANGED <<gui_layers_dir, called, gui_result>>
    /\ UNCHANGED <<coreVars, exprVars, autoVars, mainVars>>

\* separate_layers: separator.separate raises, before its mkdir (loading the
\* model) or after it; _process_task returns None and separate_layers returns
\* None, which run_full_process does not look at
GuiSeparateLayersFails ==
    /\ upc = "separate"
    /\ \E made \in BOOLEAN :
          /\ separation' = [separation EXCEPT !.outcome = "failed",
                                              !.dir = IF made THEN ThisRunDir ELSE 0]
          /\ found_dirs' = IF made /\ separation.shared
                           THEN found_dirs \cup {ThisRunDir}
                           ELSE found_dirs
    /\ upc' = "list"
    /\ UNCHANGED <<gui_layers_dir, called, gui_result>>
    /\ UNCHANGED <<coreVars, exprVars, autoVars, mainVars>>

\* separate_layers itself raises (saving or opening the image): the handler
\* of run_full_process returns (None, None)
GuiSeparateLayersRaises ==
    /\ upc = "separate"
    /\ separation' = [separation EXCEPT !.outcome = "failed"]
    /\ upc' = "returned"
    /\ gui_result' = "None, None"
    /\ UNCHANGED <<found_dirs, gui_layers_dir, called>>
    /\ UNCHANGED <<coreVars, exprVars, autoVars, mainVars>>

\* the listing of self.output_dir: no layers_* directory, return (None, None);
\* else the greatest name is taken
GuiLatestLayersDir ==
    /\ upc = "list"
    /\ IF found_dirs = {}
       THEN /\ upc' = "returned"
            /\ gui_result' = "None, None"
            /\ UNCHANGED gui_layers_dir
       ELSE /\ upc' = "cubism"
            /\ gui_layers_dir' = Latest(found_dirs)
            /\ UNCHANGED gui_result
    /\ UNCHANGED <<found_dirs, separation, called>>
    /\ UNCHANGED <<coreVars, exprVars, autoVars, mainVars>>

\* automate_cubism(layers_dir) without the Cubism executable: None, and
\* run_full_process returns (None, layers_preview)
GuiAutomateCubismNoExecutable ==
    /\ upc = "cubism"
    /\ upc' = "returned"
    /\ gui_result' = "None, layers_preview"
    /\ UNCHANGED <<found_dirs, separation, gui_layers_dir, called>>
    /\ UNCHANGED <<coreVars, exprVars, autoVars, mainVars>>

\* automate_cubism(layers_dir) calls automation.automate(layers_dir)
GuiAutomateCubism ==
    /\ upc = "cubism"
    /\ called' = Append(called, [stage |-> "cubism", dir |-> gui_layers_dir])
    /\ \/ /\ upc' = "parameters"
          /\ UNCHANGED gui_result
       \/ /\ upc' = "returned"
          /\ gui_result' = "None, layers_preview"
    /\ UNCHANGED <<found_dirs, separation, gui_layers_dir>>
    /\ UNCHANGED <<coreVars, exprVars, autoVars, mainVars>>

\* generate_parameters(project_path); the export follows whatever it returns
GuiGenerateParameters ==
    /\ upc = "parameters"
    /\ called' = Append(called, [stage |-> "parameters", dir |-> gui_layers_dir])
    /\ upc' = "export"
    /\ UNCHANGED <<found_dirs, separation, gui_layers_dir, gui_result>>
    /\ UNCHANGED <<coreVars, exprVars, autoVars, mainVars>>

\* export_model(project_path, export_format)
GuiExportModel ==
    /\ upc = "export"
    /\ called' = Append(called, [stage |-> "export", dir |-> gui_layers_dir])
    /\ upc' = "returned"
    /\ gui_result' \in {"export_path, layers_preview", "None, layers_preview"}
    /\ UNCHANGED <<found_dirs, separation, gui_layers_dir>>
    /\ UNCHANGED <<coreVars, exprVars, autoVars, mainVars>>

NextGui ==
    \/ GuiSeparateLayers
    \/ GuiSeparateLayersFails
    \/ GuiSeparateLayersRaises
    \/ GuiLatestLayersDir
    \/ GuiAutomateCubismNoExecutable
    \/ GuiAutomateCubism
    \/ GuiGenerateParameters
    \/ GuiExportModel

SpecGui == InitGui /\ [][NextGui]_vars

\* C30: in run_full_process a stage after the separation is called only when
\* this run's separation succeeded, and Cubism automation is called with the
\* directory that separation made, never with one an earlier run left.
C30_OnlyThisRunsLayers ==
    \A i \in 1..Len(called) :
        /\ separation.outcome = "ok"
        /\ called[i].dir = separation.dir

====
